---- MODULE Spec2Model ----
(***************************************************************************)
(* Verification model of the slide-deck backend (backend/app):             *)
(*   - services/llm.py       generate_outline, _call_openrouter            *)
(*   - services/image_providers/{stability,dalle}.py  generate_image       *)
(*   - services/images.py    generate_image_for_slide, generate_images     *)
(* Each component has its own specification over the shared variables.     *)
(***************************************************************************)
EXTENDS Integers, Sequences, FiniteSets, TLC

(***************************************************************************)
(* Bounds of the model                                                     *)
(***************************************************************************)
MaxSlideCount == 3        \* largest slideCount of an OutlineRequest explored
MaxUpstreamSlides == 2    \* largest number of slides an upstream answer carries
MaxCalls == 2             \* generate_image calls made on one adapter instance
MaxClock == 3             \* last instant of the wall clock explored
MaxCacheEntries == 2      \* configured settings.IMAGE_CACHE_MAX_ENTRIES
CacheTtl == 1             \* configured settings.IMAGE_CACHE_TTL_SECONDS
MaxBatch == 3             \* most slides in one generate_images call
MaxConcurrency == 2       \* configured settings.IMAGE_MAX_CONCURRENCY
MaxFallback == 2          \* longest settings.IMAGE_PROVIDER_FALLBACK_ORDER explored
MaxTextLen == 5           \* most tokens in a model answer given to the JSON extraction
MaxEvents == 3            \* emit_progress / emit_completed calls explored
MaxDeckSlides == 2        \* most slides handed to build_pptx
RateLimitAmount == 3      \* stands for the 100 of RATE_LIMIT and of 'count > 100'
RateWindow == 2           \* stands for the 15 minutes of the window, in ticks
MaxLimiterClock == 4      \* last instant at which a request is counted
MaxEditSlides == 2        \* most slides in the body of an edit request
MaxBullets == 2           \* most bullets of such a slide
MaxInstances == 3         \* adapter objects the registry's lookups construct

(***************************************************************************)
(* Program constants                                                       *)
(***************************************************************************)
OutlineMaxAttempts == 3   \* llm.py: stop_after_attempt(3)
ImageMaxAttempts == 3     \* stability.py, dalle.py, images.py: stop_after_attempt(3)

OPENROUTER_DEFAULT_MODEL == "openai/gpt-4o-mini"
DefaultAllowedModels == {"openai/gpt-4o-mini", "openai/gpt-4o"}

VARIABLES
    \* ---- settings and request of one generate_outline call ----
    apiKey,            \* bool(settings.OPENROUTER_API_KEY)
    requireUpstream,   \* settings.OPENROUTER_REQUIRE_UPSTREAM
    allowedModels,     \* settings.OPENROUTER_ALLOWED_MODELS
    reqModel,          \* request.model ("" stands for None)
    slideCount,        \* request.slide_count
    \* ---- progress of the call ----
    o_pc,              \* position of the generate_outline coroutine
    o_attempt,         \* tenacity attempt number of _call_openrouter
    o_requests,        \* endpoints of the upstream requests sent, in order
    o_seen,            \* kinds of upstream answers received so far
    o_lastError,       \* exception raised by the last failed attempt
    o_caught,          \* exception caught by generate_outline's handler
    o_outcome,         \* "none" | "returned" | "raised"
    o_result,          \* slides of the returned ChatResponse
    o_raised,          \* exception propagated to the caller
    \* ---- one provider adapter instance (StabilityProvider / DalleProvider) ----
    a_provider,        \* get_provider_name() of the instance
    a_cache,           \* self._cache, entries in dict (insertion) order
    a_clock,           \* time.time()
    a_pc,              \* position of the generate_image coroutine
    a_cur,             \* arguments and start time of the running call
    a_attempt,         \* tenacity attempt number of the running call
    a_sent,            \* upstream requests sent by the running call
    a_files,           \* image files written to STATIC_DIR so far
    a_calls,           \* generate_image calls started so far
    a_hist,            \* the last two finished calls, oldest first
    \* ---- one generate_images call (services/images.py) ----
    stabilityKey,      \* bool(settings.STABILITY_API_KEY)
    b_slides,          \* the slides argument
    b_style,           \* the style argument ("" stands for None)
    b_pc,              \* position of the generate_images coroutine
    b_task,            \* position of each _one(s) task
    b_attempt,         \* tenacity attempt number of each task's call
    b_permits,         \* value of the asyncio.Semaphore
    b_cache,           \* the module-level _cache, in dict order
    b_sent,            \* upstream requests sent for each slide
    b_call,            \* how generate_image_for_slide ended for each slide
    b_taskResult,      \* value each task returned
    b_inst,            \* which ImageMeta object each slide got: the number of
                       \* the slide whose call constructed it
    b_cacheInst,       \* pairs <<key, object>>: the object _cache holds for a key
    b_order,           \* indices of the finished tasks, in completion order
    b_results,         \* the list generate_images returned
    b_raised,          \* generate_images raised
    \* ---- the provider registry (image_providers/registry.py) ----
    r_registered,      \* names in ImageProviderFactory._providers, in dict order
    r_keys,            \* for each adapter name: bool(its api_key)
    r_default,         \* settings.DEFAULT_IMAGE_PROVIDER
    r_fallback,        \* settings.IMAGE_PROVIDER_FALLBACK_ORDER
    r_pc,              \* "idle" | "resolved"
    r_preferred,       \* preferred_provider of the last call ("" stands for None)
    r_result,          \* name of the adapter the last call returned, or "None"
    g_objects,         \* the adapter objects constructed so far: name and the
                       \* prompts its self._cache holds
    g_last,            \* the objects (indexes of g_objects) the last lookup returned
    \* ---- one JSON extraction (llm.py, _extract_first_json_object) ----
    x_text,            \* the content of the model's message, as tokens
    x_pc,              \* "start" | "done"
    x_ok,              \* first component of the returned pair
    x_value,           \* second component: the text json.loads accepted
    x_tier,            \* which parse produced it
    x_malformed,       \* the caller raised "Malformed LLM response"
    \* ---- an image cache (images.py _cache, adapters' self._cache) ----
    c_cache,           \* the dict, entries in insertion order
    c_clock,           \* time.time()
    c_op,              \* last operation: "none" | "get" | "set" | "tick"
    c_key,             \* key of the last get or set
    c_hit,             \* the last get returned a value
    c_value,           \* the value the last get returned (NoImage for None)
    c_evicted,         \* keys the last operation removed from the dict
    \* ---- the session notifier (socketio_app.py) ----
    n_recent,          \* _recent_events: session id -> list of buffered events
    n_published,       \* what emit_* published, in order: event, data, room
    n_emits,           \* number of emit_progress / emit_completed calls so far
    n_op,              \* the last call: op, session, fromIndex, sid
    n_sent,            \* what the last resume sent, in order: event, data, to
    n_raised,          \* the last call raised
    \* ---- one build_pptx call (services/pptx.py) ----
    p_slides,          \* the slides argument: has an image, has notes
    p_hasCallback,     \* on_progress was given
    p_pc,              \* "start" | "slides" | "returned" | "raised"
    p_idx,             \* slides the loop has finished with
    p_log,             \* per finished slide: failed stage, fetches, picture, notes
    p_progress,        \* the (idx, total) pairs on_progress was called with
    p_cbRaised,        \* how many of those calls raised
    p_error,           \* what build_pptx raised: "none" | "template" | "slide" | "save"
    \* ---- one connection attempt (socketio_app.py, connect) ----
    k_requireKey,      \* settings.REQUIRE_API_KEY
    k_env,             \* settings.PROJECT_ENV
    k_bearer,          \* the Authorization header
    k_apiKey,          \* the X-API-Key header
    k_session,         \* sessionId of the auth dict or the query string
    k_pc,              \* "start" | "done"
    k_admitted,        \* connect did not return False
    k_room,            \* the client entered the room of its session id
    k_swallowed,       \* connect ended in its except branch
    \* ---- the request rate limiter (core/rate_limit.py) ----
    l_clock,           \* time.time(), in ticks
    l_primary,         \* the limits storage: key -> hit count, window start
    l_fallback,        \* _fallback_counters: key -> (count, start)
    l_window,          \* per client key: start of its current window, requests
                       \* seen and requests admitted in it
    l_last,            \* the last request: client key, admitted or 429
    \* ---- one POST /slides/edit (api/slides.py, edit_slide_content) ----
    e_slides,          \* the slides of the body: the number of bullets of each
    e_request,         \* the EditSlideRequest: slide_index, target, bullet_index
    e_pc,              \* "start" | "done"
    e_status,          \* HTTP status of the answer
    e_detail,          \* the detail of an error answer
    e_calls            \* requests made to the text or image editing service

outlineVars == <<apiKey, requireUpstream, allowedModels, reqModel, slideCount,
                 o_pc, o_attempt, o_requests, o_seen, o_lastError,
                 o_caught, o_outcome, o_result, o_raised>>

adapterVars == <<a_provider, a_cache, a_clock, a_pc, a_cur, a_attempt, a_sent,
                 a_files, a_calls, a_hist>>

imagesVars == <<stabilityKey, b_slides, b_style, b_pc, b_task, b_attempt,
                b_permits, b_cache, b_sent, b_call,
                b_taskResult, b_inst, b_cacheInst, b_order, b_results,
                b_raised>>

registryVars == <<r_registered, r_keys, r_default, r_fallback, r_pc,
                  r_preferred, r_result, g_objects, g_last>>

extractVars == <<x_text, x_pc, x_ok, x_value, x_tier, x_malformed>>

cacheVars == <<c_cache, c_clock, c_op, c_key, c_hit, c_value, c_evicted>>

notifierVars == <<n_recent, n_published, n_emits, n_op, n_sent, n_raised>>

\* the handlers of the socket server and the deck builder
pptxVars == <<p_slides, p_hasCallback, p_pc, p_idx, p_log, p_progress,
              p_cbRaised, p_error>>

connectVars == <<k_requireKey, k_env, k_bearer, k_apiKey, k_session, k_pc,
                 k_admitted, k_room, k_swallowed>>

limiterVars == <<l_clock, l_primary, l_fallback, l_window, l_last>>

\* the HTTP-side components
editVars == <<e_slides, e_request, e_pc, e_status, e_detail, e_calls>>

tailVars == <<limiterVars, editVars>>

lateVars == <<notifierVars, pptxVars, connectVars, tailVars>>

\* the components added after the three services above
auxVars == <<registryVars, extractVars, cacheVars, lateVars>>

vars == <<outlineVars, adapterVars, imagesVars, auxVars>>

(***************************************************************************)
(* Data model                                                              *)
(***************************************************************************)
NoImage == [url |-> "", altText |-> "", provider |-> ""]

SlidePlan(title, bullets) ==
    [title |-> title, bullets |-> bullets, image |-> NoImage, notes |-> ""]

\* no generate_image call is running
NoCall == [title |-> "", bullets |-> <<>>, style |-> "", at |-> 0]

NoError == [type |-> "none", kind |-> "none", cause |-> "none"]

LLMError(kind, cause) == [type |-> "LLMError", kind |-> kind, cause |-> cause]

\* tenacity.RetryError wraps the exception of the last attempt
RetryError(last) == [type |-> "RetryError", kind |-> last.kind, cause |-> last.cause]

(***************************************************************************)
(* llm.py                                                                  *)
(***************************************************************************)

\* variant: titles numbered from 0 (f"Slide {i}")
OfflineOutline_TitleFromZero(count) ==
    [i \in 1..count |-> SlidePlan("Slide " \o ToString(i - 1), <<"Bullet">>)]

\* f"Slide {i+1}" for i in range(count), bullets=["Bullet"]
OfflineOutline(count) ==
    [i \in 1..count |-> SlidePlan("Slide " \o ToString(i), <<"Bullet">>)]

\* _select_model: the model actually used, and whether the allow-list rejects it
SelectedModel(requested) ==
    IF requested # "" THEN requested ELSE OPENROUTER_DEFAULT_MODEL

\* variant: the allow-list is not consulted
ModelDisallowed_Never(requested, allowed) == FALSE

\* "if settings.OPENROUTER_ALLOWED_MODELS and model not in ...": an empty
\* allow-list admits every model
ModelDisallowed(requested, allowed) ==
    allowed # {} /\ SelectedModel(requested) \notin allowed

\* slides an upstream answer carries: k slides titled "U1".."Uk"
UpstreamSlides(k) ==
    [i \in 1..k |-> SlidePlan("U" \o ToString(i), <<"point">>)]

\* variant: the outline is cut to the number of slides requested
ParseResponse_FitToCount(supplied, count) ==
    SubSeq(supplied, 1, IF Len(supplied) < count THEN Len(supplied) ELSE count)

\* _parse_response: one SlidePlan per element of data.get("slides", []), in
\* order; request.slide_count is not looked at
ParseResponse(supplied, count) == supplied

\* outcomes of one upstream HTTP exchange
ChatOutcomes == {"ok", "malformed", "invalid_slides", "rate_limited",
                 "server_error", "timeout"}

\* the except clauses of the legacy branch classify the failure
LegacyError(outcome) ==
    IF outcome \in {"server_error", "timeout"}
    THEN LLMError("http_error", outcome)         \* except httpx.HTTPError
    ELSE LLMError("request_failed", outcome)     \* except Exception

\* variant: the handler forgets tenacity's RetryError
OutlineCatches_LLMErrorOnly(e) == e.type = "LLMError"

\* generate_outline: except (LLMError, RetryError)
OutlineCatches(e) == e.type \in {"LLMError", "RetryError"}

\* variant: stop_after_attempt(4)
RetryStops_OneMore(attempt) == attempt >= OutlineMaxAttempts + 1

\* what tenacity does with an attempt that raised e
\* (stop_after_attempt(3), every exception is retried, reraise is off)
RetryStops(attempt) == attempt >= OutlineMaxAttempts

\* variant: the require-upstream flag is not consulted
FallsBack_IgnoresRequire(e, require) == OutlineCatches(e)

\* generate_outline: "if settings.OPENROUTER_REQUIRE_UPSTREAM: raise",
\* otherwise the offline minimal outline
FallsBack(e, require) == OutlineCatches(e) /\ ~require

\* generate_outline's reaction to the exception that left _call_openrouter
OutlineFails(e) ==
    /\ o_pc' = "done"
    /\ IF FallsBack(e, requireUpstream)
       THEN /\ o_caught' = e
            /\ o_outcome' = "returned"
            /\ o_result' = OfflineOutline(slideCount)
            /\ o_raised' = NoError
       ELSE /\ o_caught' = IF OutlineCatches(e) THEN e ELSE NoError
            /\ o_outcome' = "raised"
            /\ o_result' = <<>>
            /\ o_raised' = e

\* an attempt of _call_openrouter ended by raising e
AttemptFailed(e) ==
    /\ o_lastError' = e
    /\ IF RetryStops(o_attempt)
       THEN OutlineFails(RetryError(e))
       ELSE /\ o_pc' = "backoff"
            /\ UNCHANGED <<o_caught, o_outcome, o_result, o_raised>>

\* variant: a 429 from /chat/completions ends the attempt
TriesLegacy_NotOn429(outcome) == outcome # "rate_limited"

\* "except Exception as e" around the primary branch: whatever went wrong
\* with the chat-completion exchange, the legacy branch runs
TriesLegacy(outcome) == TRUE

settingsVars == <<apiKey, requireUpstream, allowedModels, reqModel, slideCount>>

\* generate_outline, up to the call of _call_openrouter
GenerateOutline ==
    /\ o_pc = "start"
    /\ IF ~apiKey
       THEN /\ o_pc' = "done"
            /\ o_outcome' = "returned"
            /\ o_result' = OfflineOutline(slideCount)
            /\ UNCHANGED o_attempt
       ELSE /\ o_pc' = "attempt"
            /\ o_attempt' = 1
            /\ UNCHANGED <<o_outcome, o_result>>
    /\ UNCHANGED <<settingsVars, o_requests, o_seen, o_lastError, o_caught,
                   o_raised>>
    /\ UNCHANGED <<adapterVars, imagesVars, auxVars>>

\* one attempt of _call_openrouter, up to its first await
AttemptBegin ==
    /\ o_pc = "attempt"
    /\ IF ModelDisallowed(reqModel, allowedModels)
       THEN \* _select_model raises in the primary branch and again in
            \* _build_payload of the legacy branch: no request is sent
            /\ AttemptFailed(LLMError("request_failed", "disallowed_model"))
            /\ UNCHANGED o_requests
       ELSE /\ o_requests' = Append(o_requests, "/chat/completions")
            /\ o_pc' = "await_chat"
            /\ UNCHANGED <<o_lastError, o_caught, o_outcome, o_result, o_raised>>
    /\ UNCHANGED <<settingsVars, o_attempt, o_seen>>
    /\ UNCHANGED <<adapterVars, imagesVars, auxVars>>

\* the /chat/completions exchange completes
ChatCompletionsResponse(outcome, k) ==
    /\ o_pc = "await_chat"
    /\ o_seen' = o_seen \cup {outcome}
    /\ IF outcome = "ok"
       THEN /\ o_pc' = "done"
            /\ o_outcome' = "returned"
            /\ o_result' = ParseResponse(UpstreamSlides(k), slideCount)
            /\ UNCHANGED o_requests
            /\ UNCHANGED <<o_lastError, o_caught, o_raised>>
       ELSE IF TriesLegacy(outcome)
       THEN \* except Exception: fall back to the legacy /generate endpoint
            /\ o_requests' = Append(o_requests, "/generate")
            /\ o_pc' = "await_legacy"
            /\ UNCHANGED <<o_outcome, o_result, o_lastError, o_caught, o_raised>>
       ELSE /\ AttemptFailed(LLMError("request_failed", outcome))
            /\ UNCHANGED o_requests
    /\ UNCHANGED <<settingsVars, o_attempt>>
    /\ UNCHANGED <<adapterVars, imagesVars, auxVars>>

\* the legacy /generate exchange completes
LegacyResponse(outcome, k) ==
    /\ o_pc = "await_legacy"
    /\ o_seen' = o_seen \cup {outcome}
    /\ IF outcome = "ok"
       THEN /\ o_pc' = "done"
            /\ o_outcome' = "returned"
            /\ o_result' = ParseResponse(UpstreamSlides(k), slideCount)
            /\ UNCHANGED <<o_lastError, o_caught, o_raised>>
       ELSE AttemptFailed(LegacyError(outcome))
    /\ UNCHANGED <<settingsVars, o_attempt, o_requests>>
    /\ UNCHANGED <<adapterVars, imagesVars, auxVars>>

\* tenacity's wait between two attempts elapses
BackoffElapsed ==
    /\ o_pc = "backoff"
    /\ o_pc' = "attempt"
    /\ o_attempt' = o_attempt + 1
    /\ UNCHANGED <<settingsVars, o_requests, o_seen, o_lastError, o_caught,
                   o_outcome, o_result, o_raised>>
    /\ UNCHANGED <<adapterVars, imagesVars, auxVars>>

\* a process in which no generate_image call was made yet
AdapterIdle ==
    /\ a_provider = "stability-ai"
    /\ a_cache = <<>>
    /\ a_clock = 0
    /\ a_pc = "idle"
    /\ a_cur = NoCall
    /\ a_attempt = 0
    /\ a_sent = 0
    /\ a_files = 0
    /\ a_calls = 0
    /\ a_hist = <<>>

\* a process in which generate_images was not called yet
ImagesIdle ==
    /\ stabilityKey = FALSE
    /\ b_slides = <<>>
    /\ b_style = ""
    /\ b_pc = "start"
    /\ b_task = <<>>
    /\ b_attempt = <<>>
    /\ b_permits = 0
    /\ b_cache = <<>>
    /\ b_cacheInst = {}
    /\ b_sent = <<>>
    /\ b_call = <<>>
    /\ b_taskResult = <<>>
    /\ b_inst = <<>>
    /\ b_order = <<>>
    /\ b_results = <<>>
    /\ b_raised = FALSE

\* adapter names of the two registered classes
ProviderNames == {"stability-ai", "dalle"}

\* a process in which register_providers was not called yet
RegistryIdle ==
    /\ r_registered = <<>>
    /\ r_keys = [n \in ProviderNames |-> FALSE]
    /\ r_default = "stability-ai"
    /\ r_fallback = <<>>
    /\ r_pc = "idle"
    /\ r_preferred = ""
    /\ r_result = "None"
    /\ g_objects = <<>>
    /\ g_last = {}

\* no text was handed to _extract_first_json_object
ExtractIdle ==
    /\ x_text = <<>>
    /\ x_pc = "start"
    /\ x_ok = FALSE
    /\ x_value = <<>>
    /\ x_tier = "none"
    /\ x_malformed = FALSE

\* an empty cache on which nothing was done
CacheIdle ==
    /\ c_cache = <<>>
    /\ c_clock = 0
    /\ c_op = "none"
    /\ c_key = ""
    /\ c_hit = FALSE
    /\ c_value = [url |-> "", altText |-> "", provider |-> ""]
    /\ c_evicted = {}

\* session ids callers pass: two UUID strings and one that UUID() rejects
SessionIds == {"6f1c0e9a-0000-4000-8000-000000000001",
               "6f1c0e9a-0000-4000-8000-000000000002",
               "not-a-uuid"}

NoOp == [op |-> "none", session |-> "", fromIndex |-> 0, sid |-> ""]

\* a server that published nothing yet
NotifierIdle ==
    /\ n_recent = [s \in SessionIds |-> <<>>]
    /\ n_published = <<>>
    /\ n_emits = 0
    /\ n_op = NoOp
    /\ n_sent = <<>>
    /\ n_raised = FALSE

\* build_pptx was not called
PptxIdle ==
    /\ p_slides = <<>>
    /\ p_hasCallback = FALSE
    /\ p_pc = "start"
    /\ p_idx = 0
    /\ p_log = <<>>
    /\ p_progress = <<>>
    /\ p_cbRaised = 0
    /\ p_error = "none"

\* no client tried to connect
ConnectIdle ==
    /\ k_requireKey = FALSE
    /\ k_env = "development"
    /\ k_bearer = "none"
    /\ k_apiKey = "none"
    /\ k_session = "none"
    /\ k_pc = "start"
    /\ k_admitted = FALSE
    /\ k_room = FALSE
    /\ k_swallowed = FALSE

\* client keys: request.client.host of the test client, or an x-forwarded-for
ClientKeys == {"testclient", "1.1.1.1"}

NoCounter == [count |-> 0, start |-> 0]

\* no request was counted
LimiterIdle ==
    /\ l_clock = 0
    /\ l_primary = [k \in ClientKeys |-> NoCounter]
    /\ l_fallback = [k \in ClientKeys |-> NoCounter]
    /\ l_window = [k \in ClientKeys |-> [start |-> 0, seen |-> 0, admitted |-> 0]]
    /\ l_last = [key |-> "", status |-> 0]

\* no edit request was received
EditIdle ==
    /\ e_slides = <<>>
    /\ e_request = [slide_index |-> 0, target |-> "title", bullet_index |-> -1]
    /\ e_pc = "start"
    /\ e_status = 0
    /\ e_detail = ""
    /\ e_calls = 0

TailIdle ==
    /\ LimiterIdle
    /\ EditIdle

LateIdle ==
    /\ NotifierIdle
    /\ PptxIdle
    /\ ConnectIdle
    /\ TailIdle

AuxIdle ==
    /\ RegistryIdle
    /\ ExtractIdle
    /\ CacheIdle
    /\ LateIdle

OutlineInit ==
    /\ AdapterIdle
    /\ ImagesIdle
    /\ AuxIdle
    /\ apiKey \in BOOLEAN
    /\ requireUpstream \in BOOLEAN
    /\ allowedModels \in {{}, DefaultAllowedModels}
    /\ reqModel \in {"", "openai/gpt-4o", "not-in-allowlist"}
    /\ slideCount \in 1..MaxSlideCount
    /\ o_pc = "start"
    /\ o_attempt = 0
    /\ o_requests = <<>>
    /\ o_seen = {}
    /\ o_lastError = NoError
    /\ o_caught = NoError
    /\ o_outcome = "none"
    /\ o_result = <<>>
    /\ o_raised = NoError

OutlineNext ==
    \/ GenerateOutline
    \/ AttemptBegin
    \/ \E outcome \in ChatOutcomes, k \in 0..MaxUpstreamSlides :
          ChatCompletionsResponse(outcome, k)
    \/ \E outcome \in ChatOutcomes, k \in 0..MaxUpstreamSlides :
          LegacyResponse(outcome, k)
    \/ BackoffElapsed

SpecOutline == OutlineInit /\ [][OutlineNext]_vars

(***************************************************************************)
(* Properties of generate_outline                                          *)
(***************************************************************************)

\* the titles "Slide 1" .. "Slide 20" a request of 1..20 slides can ask for
SlideTitles ==
    <<"Slide 1", "Slide 2", "Slide 3", "Slide 4", "Slide 5", "Slide 6",
      "Slide 7", "Slide 8", "Slide 9", "Slide 10", "Slide 11", "Slide 12",
      "Slide 13", "Slide 14", "Slide 15", "Slide 16", "Slide 17", "Slide 18",
      "Slide 19", "Slide 20">>

\* C1: without an OpenRouter API key a finished generate_outline call has
\* returned exactly slideCount slides, slide i titled "Slide i" with the
\* bullets ["Bullet"], and has sent no upstream request.
C1_OfflineWithoutKey ==
    (o_pc = "done" /\ ~apiKey) =>
        /\ o_outcome = "returned"
        /\ Len(o_result) = slideCount
        /\ \A i \in 1..slideCount :
              /\ o_result[i].title = SlideTitles[i]
              /\ o_result[i].bullets = <<"Bullet">>
        /\ o_requests = <<>>

\* Scenario A: three slides asked for, no key, call finished
C1_Witness ==
    /\ o_pc = "done" /\ ~apiKey /\ slideCount = 3
    /\ Len(o_result) = 3 /\ o_result[3].title = "Slide 3"

\* C2: with an API key and require-upstream off, a finished call has never
\* raised; whenever the upstream call failed (no exchange was answered with
\* a usable outline) the caller holds the offline outline with exactly
\* slideCount slides.
C2_FallbackNeverRaises ==
    (o_pc = "done" /\ apiKey /\ ~requireUpstream) =>
        /\ o_outcome = "returned"
        /\ o_raised = NoError
        /\ ("ok" \notin o_seen) =>
              /\ o_caught # NoError
              /\ Len(o_result) = slideCount
              /\ \A i \in 1..slideCount :
                    /\ o_result[i].title = SlideTitles[i]
                    /\ o_result[i].bullets = <<"Bullet">>

\* Scenario C: 500 on every attempt, require-upstream off, three slides
C2_Witness ==
    /\ o_pc = "done" /\ apiKey /\ ~requireUpstream /\ slideCount = 3
    /\ o_seen = {"server_error"} /\ Len(o_requests) = 6
    /\ o_caught.type = "RetryError" /\ Len(o_result) = 3

\* C3: with require-upstream on and the upstream answering 500 to every
\* request, the call never returns an outline; once finished it has raised
\* a classified upstream (HTTP) error to the caller.
C3_RequireUpstreamRaises ==
    (apiKey /\ requireUpstream /\ o_seen \subseteq {"server_error"}) =>
        /\ o_outcome # "returned"
        /\ o_result = <<>>
        /\ (o_pc = "done" /\ o_seen # {}) =>
              /\ o_outcome = "raised"
              /\ o_raised.type \in {"LLMError", "RetryError"}
              /\ o_raised.kind = "http_error"
              /\ o_raised.cause = "server_error"

\* Scenario D: 500 on all six requests of the three attempts, error raised
C3_Witness ==
    /\ o_pc = "done" /\ apiKey /\ requireUpstream
    /\ o_seen = {"server_error"} /\ Len(o_requests) = 6
    /\ o_outcome = "raised" /\ o_raised.type = "RetryError"


(***************************************************************************)
(* image_providers/stability.py, image_providers/dalle.py                  *)
(***************************************************************************)

\* slide titles, bullet lists and styles the calls are drawn from
\* ("" stands for style=None)
Titles == {"AI", "ai", "Data"}
BulletLists == {<<"Point">>}
Styles == {"", "flat"}

\* str.lower() (after the whitespace collapse) on the texts above
Lower(text) ==
    CASE text = "AI" -> "ai"
      [] text = "Data" -> "data"
      [] text = "Point" -> "point"
      [] OTHER -> text

\* "; ".join(slide.bullets), lower-cased
RECURSIVE JoinBullets(_)
JoinBullets(bullets) ==
    IF bullets = <<>> THEN ""
    ELSE IF Len(bullets) = 1 THEN Lower(Head(bullets))
    ELSE Lower(Head(bullets)) \o "; " \o JoinBullets(Tail(bullets))

\* StabilityProvider._build_prompt / DalleProvider._build_prompt:
\* the normalised prompt, which is also the cache key
BuildPrompt(provider, title, bullets, style) ==
    IF provider = "dalle"
    THEN "create a professional, business-appropriate image for a powerpoint slide titled '"
            \o Lower(title) \o "' with the following content: "
            \o JoinBullets(bullets)
            \o (IF style # "" THEN " style: " \o Lower(style) \o "." ELSE "")
            \o " the image should be clean, modern, and suitable for a business presentation. avoid text or words in the image."
    ELSE "title: " \o Lower(title) \o ". bullets: " \o JoinBullets(bullets) \o "."
            \o (IF style # "" THEN " style: " \o Lower(style) \o "." ELSE "")

ImageMeta(url, altText, provider) ==
    [url |-> url, altText |-> altText, provider |-> provider]

STABILITY_PLACEHOLDER_URL == "https://placehold.co/600x400"

\* ImageMeta(url=settings.*_PLACEHOLDER_URL, alt_text=slide.title, provider="placeholder")
Placeholder(title) == ImageMeta(STABILITY_PLACEHOLDER_URL, title, "placeholder")

\* _save_image: f"{PUBLIC_BASE_URL}{STATIC_URL_PATH}/{STATIC_IMAGES_SUBDIR}/{uuid4()}.png";
\* the n-th file written stands for the n-th fresh uuid
SavedImageUrl(n) == "http://localhost:8000/static/images/" \o ToString(n) \o ".png"

\* ---- the per-instance cache: dict[key] = (timestamp, ImageMeta) ----
CacheKeys(cache) == {cache[i].key : i \in 1..Len(cache)}

CacheIndex(cache, key) ==
    IF key \in CacheKeys(cache)
    THEN CHOOSE i \in 1..Len(cache) : cache[i].key = key
    ELSE 0

RemoveAt(seq, i) ==
    [j \in 1..(Len(seq) - 1) |-> IF j < i THEN seq[j] ELSE seq[j + 1]]

\* variant: an entry exactly TTL old counts as expired
Expired_AtTtl(ts, now) == now - ts >= CacheTtl

\* time.time() - ts > settings.IMAGE_CACHE_TTL_SECONDS
Expired(ts, now) == now - ts > CacheTtl

\* variant: the age of the entry is not looked at
CacheHit_IgnoresTtl(cache, key, now) == key \in CacheKeys(cache)

\* _cache_get: the value returned (hit) and the cache it leaves behind
CacheHit(cache, key, now) ==
    /\ key \in CacheKeys(cache)
    /\ ~Expired(cache[CacheIndex(cache, key)].ts, now)

CacheValue(cache, key) == cache[CacheIndex(cache, key)].value

CacheAfterGet(cache, key, now) ==
    IF key \in CacheKeys(cache) /\ Expired(cache[CacheIndex(cache, key)].ts, now)
    THEN RemoveAt(cache, CacheIndex(cache, key))      \* self._cache.pop(key, None)
    ELSE cache

\* variant: max(...) in place of min(...)
OldestIndex_Newest(cache) ==
    CHOOSE i \in 1..Len(cache) :
        /\ \A j \in 1..Len(cache) : cache[i].ts >= cache[j].ts
        /\ \A j \in 1..(i - 1) : cache[j].ts < cache[i].ts

\* min(self._cache.keys(), key=lambda k: self._cache[k][0]): the first entry
\* in dict order among those with the smallest timestamp
OldestIndex(cache) ==
    CHOOSE i \in 1..Len(cache) :
        /\ \A j \in 1..Len(cache) : cache[i].ts <= cache[j].ts
        /\ \A j \in 1..(i - 1) : cache[j].ts > cache[i].ts

\* variant: len(self._cache) > settings.IMAGE_CACHE_MAX_ENTRIES
AtCapacity_Over(cache) == Len(cache) > MaxCacheEntries

\* len(self._cache) >= settings.IMAGE_CACHE_MAX_ENTRIES
AtCapacity(cache) == Len(cache) >= MaxCacheEntries

\* _cache_set
CacheSet(cache, key, value, now) ==
    LET kept == IF AtCapacity(cache)
                THEN RemoveAt(cache, OldestIndex(cache))
                ELSE cache
        entry == [key |-> key, ts |-> now, value |-> value]
    IN  IF key \in CacheKeys(kept)
        THEN [kept EXCEPT ![CacheIndex(kept, key)] = entry]
        ELSE Append(kept, entry)

\* ---- generate_image ----
\* what the upstream exchange of one attempt can come to
\*   ok            200 with a usable artifact, decoded and saved
\*   rate_limited  429
\*   bad_request   400
\*   http_error    any other error status (raise_for_status), network
\*                 error or timeout: all httpx.HTTPError
\*   no_image      200 without artifacts / finishReason # SUCCESS / no b64_json
\*   exception     body that is not JSON or not of the expected shape,
\*                 base64 that does not decode, file that cannot be written
ImageOutcomes == {"ok", "rate_limited", "bad_request", "http_error",
                  "no_image", "exception"}

\* variant: the handler of unexpected exceptions re-raises
AdapterDisposition_Reraise(kind) ==
    IF kind = "ok" THEN "image"
    ELSE IF kind = "exception" THEN "raise"
    ELSE "placeholder"

\* variant: a 429/400 answer is left to raise_for_status and the error is
\* handed to the retry decorator
AdapterDisposition_StatusRaises(kind) ==
    IF kind = "ok" THEN "image"
    ELSE IF kind \in {"rate_limited", "bad_request"} THEN "raise"
    ELSE "placeholder"

\* how the body of generate_image ends for each outcome:
\*   rate_limited, bad_request -> return placeholder (status checks)
\*   http_error                -> except httpx.HTTPError: return placeholder
\*   no_image                  -> return placeholder
\*   exception                 -> except Exception: return placeholder
\*   ok                        -> the saved image, cached
AdapterDisposition(kind) ==
    IF kind = "ok" THEN "image" ELSE "placeholder"

\* variant: whatever generate_image returns is cached
CachesResult_Always(disp) == TRUE

\* self._cache_set(prompt, meta) is reached only on the path that saved an
\* image; every placeholder is returned before it
CachesResult(disp) == disp = "image"

\* record of a finished call
FinishedCall(cur, sent, hit, kind, raised, result) ==
    [title |-> cur.title, bullets |-> cur.bullets, style |-> cur.style,
     at |-> cur.at, sent |-> sent, hit |-> hit, kind |-> kind,
     raised |-> raised, result |-> result]

LastTwo(hist, call) ==
    IF Len(hist) < 2 THEN Append(hist, call) ELSE <<hist[2], call>>

\* generate_image(slide, style) up to its first await: prompt, cache lookup,
\* and on a miss the upstream request
GenerateImage(title, bullets, style) ==
    /\ a_pc = "idle"
    /\ a_calls < MaxCalls
    /\ a_calls' = a_calls + 1
    /\ LET key == BuildPrompt(a_provider, title, bullets, style)
           cur == [title |-> title, bullets |-> bullets, style |-> style,
                   at |-> a_clock]
       IN  IF CacheHit(a_cache, key, a_clock)
           THEN /\ a_hist' = LastTwo(a_hist, FinishedCall(cur, 0, TRUE, "cache",
                                        FALSE, CacheValue(a_cache, key)))
                /\ UNCHANGED <<a_cache, a_pc, a_cur, a_attempt, a_sent>>
           ELSE /\ a_cache' = CacheAfterGet(a_cache, key, a_clock)
                /\ a_pc' = "await"
                /\ a_cur' = cur
                /\ a_attempt' = 1
                /\ a_sent' = 1
                /\ UNCHANGED a_hist
    /\ UNCHANGED <<a_provider, a_clock, a_files>>
    /\ UNCHANGED <<outlineVars, imagesVars, auxVars>>

\* the upstream exchange of the running attempt completes
GenerateImageResponse(kind) ==
    /\ a_pc = "await"
    /\ LET disp == AdapterDisposition(kind)
           key == BuildPrompt(a_provider, a_cur.title, a_cur.bullets, a_cur.style)
           meta == ImageMeta(SavedImageUrl(a_files + 1), a_cur.title, a_provider)
       IN  CASE disp = "image" ->
                  /\ a_files' = a_files + 1
                  /\ a_cache' = CacheSet(a_cache, key, meta, a_clock)
                  /\ a_hist' = LastTwo(a_hist, FinishedCall(a_cur, a_sent, FALSE,
                                          kind, FALSE, meta))
                  /\ a_pc' = "idle"
                  /\ a_cur' = NoCall
                  /\ UNCHANGED <<a_attempt, a_sent>>
             [] disp = "placeholder" ->
                  /\ UNCHANGED a_files
                  /\ a_hist' = LastTwo(a_hist, FinishedCall(a_cur, a_sent, FALSE,
                                          kind, FALSE, Placeholder(a_cur.title)))
                  /\ a_pc' = "idle"
                  /\ a_cur' = NoCall
                  /\ a_cache' = IF CachesResult(disp)
                                THEN CacheSet(a_cache, key,
                                              Placeholder(a_cur.title), a_clock)
                                ELSE a_cache
                  /\ UNCHANGED <<a_attempt, a_sent>>
             [] disp = "raise" /\ a_attempt >= ImageMaxAttempts ->
                  \* tenacity gives up: RetryError reaches the caller
                  /\ a_hist' = LastTwo(a_hist, FinishedCall(a_cur, a_sent, FALSE,
                                          kind, TRUE, NoImage))
                  /\ a_pc' = "idle"
                  /\ a_cur' = NoCall
                  /\ UNCHANGED <<a_cache, a_attempt, a_sent, a_files>>
             [] disp = "raise" /\ a_attempt < ImageMaxAttempts ->
                  \* tenacity waits and runs the body again: the lookup
                  \* misses as before and the request is sent again
                  /\ a_attempt' = a_attempt + 1
                  /\ a_sent' = a_sent + 1
                  /\ a_cache' = CacheAfterGet(a_cache, key, a_clock)
                  /\ UNCHANGED <<a_pc, a_cur, a_files, a_hist>>
    /\ UNCHANGED <<a_provider, a_clock, a_calls>>
    /\ UNCHANGED <<outlineVars, imagesVars, auxVars>>

\* wall-clock time passes
Tick ==
    /\ a_clock < MaxClock
    /\ a_clock' = a_clock + 1
    /\ UNCHANGED <<a_provider, a_cache, a_pc, a_cur, a_attempt, a_sent,
                   a_files, a_calls, a_hist>>
    /\ UNCHANGED <<outlineVars, imagesVars, auxVars>>

\* no generate_outline call is in progress
OutlineIdle ==
    /\ apiKey = FALSE
    /\ requireUpstream = FALSE
    /\ allowedModels = DefaultAllowedModels
    /\ reqModel = ""
    /\ slideCount = 1
    /\ o_pc = "start"
    /\ o_attempt = 0
    /\ o_requests = <<>>
    /\ o_seen = {}
    /\ o_lastError = NoError
    /\ o_caught = NoError
    /\ o_outcome = "none"
    /\ o_result = <<>>
    /\ o_raised = NoError

AdapterInit ==
    /\ OutlineIdle
    /\ ImagesIdle
    /\ AuxIdle
    /\ a_provider \in {"stability-ai", "dalle"}
    /\ a_cache = <<>>
    /\ a_clock = 0
    /\ a_pc = "idle"
    /\ a_cur = NoCall
    /\ a_attempt = 0
    /\ a_sent = 0
    /\ a_files = 0
    /\ a_calls = 0
    /\ a_hist = <<>>

AdapterNext ==
    \/ \E title \in Titles, bullets \in BulletLists, style \in Styles :
          GenerateImage(title, bullets, style)
    \/ \E kind \in ImageOutcomes : GenerateImageResponse(kind)
    \/ Tick

SpecAdapter == AdapterInit /\ [][AdapterNext]_vars


(***************************************************************************)
(* Properties of a provider adapter's generate_image                       *)
(***************************************************************************)

\* C4: generate_image is total: every finished call, whatever the upstream
\* outcome, has returned an ImageMeta (the adapter's own or a placeholder,
\* with a URL and the slide's title as alt text) and has not raised.
C4_GenerateImageTotal ==
    \A i \in 1..Len(a_hist) :
        /\ ~a_hist[i].raised
        /\ a_hist[i].result.provider \in {a_provider, "placeholder"}
        /\ a_hist[i].result.url # ""
        /\ a_hist[i].result.altText \in Titles

\* a call whose upstream exchange ended in an unexpected exception (bad
\* body, decode or save failure) has finished with a placeholder
C4_Witness ==
    \E i \in 1..Len(a_hist) :
        /\ a_hist[i].kind = "exception"
        /\ ~a_hist[i].raised
        /\ a_hist[i].result.provider = "placeholder"

\* C5: a call whose upstream request was answered 429 or 400 returns a
\* placeholder without raising, and that request was the only one the call
\* sent; no call ever has more than one request behind it.
C5_RateLimitNotRetried ==
    /\ a_sent <= 1
    /\ \A i \in 1..Len(a_hist) :
          a_hist[i].kind \in {"rate_limited", "bad_request"} =>
              /\ ~a_hist[i].raised
              /\ a_hist[i].result = Placeholder(a_hist[i].title)
              /\ a_hist[i].sent = 1

\* Scenario B: a 429 answer, then a 400 answer on the next call
C5_Witness ==
    /\ Len(a_hist) = 2
    /\ a_hist[1].kind = "rate_limited"
    /\ a_hist[1].result.provider = "placeholder"
    /\ a_hist[2].kind = "bad_request"
    /\ a_hist[2].result.provider = "placeholder"

\* the last two finished calls had identical (slide, style) and the second
\* started within the TTL of the first
SameArgsWithinTtl ==
    /\ Len(a_hist) = 2
    /\ a_hist[1].title = a_hist[2].title
    /\ a_hist[1].bullets = a_hist[2].bullets
    /\ a_hist[1].style = a_hist[2].style
    /\ a_hist[2].at - a_hist[1].at <= CacheTtl

\* C9 as stated: of two consecutive calls with identical (slide, style), the
\* second within the TTL of the first, the second sends no upstream request.
C9_Original ==
    SameArgsWithinTtl => a_hist[2].sent = 0

\* C9 amended: if the first call obtained a generated image from the
\* upstream (which caches it), the second call is a cache hit: it sends no
\* upstream request and returns the first call's image.
C9_CacheHitAfterSuccess ==
    (SameArgsWithinTtl /\ a_hist[1].kind = "ok") =>
        /\ a_hist[2].sent = 0
        /\ a_hist[2].hit
        /\ a_hist[2].result = a_hist[1].result

\* a generated image at time 0, the same call again exactly TTL later
C9_Witness ==
    /\ SameArgsWithinTtl
    /\ a_hist[1].kind = "ok"
    /\ a_hist[2].at - a_hist[1].at = CacheTtl
    /\ a_hist[2].hit


(***************************************************************************)
(* services/images.py                                                      *)
(***************************************************************************)

\* build_prompt(slide, style): same text as the Stability adapter's prompt
ImagesKey(slide, style) ==
    BuildPrompt("stability-ai", slide.title, slide.bullets, style)

\* _cache_get returns the stored ImageMeta itself (return meta), not a copy
CachedInstance(key) == (CHOOSE p \in b_cacheInst : p[1] = key)[2]

\* data.url of the answer to slide i's request: every answer names its own image
UpstreamUrl(i) == "http://img/" \o ToString(i)

RECURSIVE SumTo(_, _)
SumTo(counts, n) == IF n = 0 THEN 0 ELSE counts[n] + SumTo(counts, n - 1)

\* requests the batch has sent upstream so far
RequestsSent == SumTo(b_sent, Len(b_sent))

\* outcomes of the POST /images/generations exchange
\*   ok            200, JSON with a url
\*   rate_limited  429
\*   not_found     404 (the v2beta endpoint is tried next)
\*   http_error    other error status (raise_for_status), network error, timeout
\*   no_image      200, JSON with an empty url
\*   exception     200 with a body that does not parse or validate
LegacyImageOutcomes == {"ok", "rate_limited", "not_found", "http_error",
                        "no_image", "exception"}

\* outcomes of the POST /v2beta/stable-image/generate/core exchange
\*   ok_image      200 with image bytes, written to STATIC_DIR
\*   ok            200, JSON with a url
\*   rate_limited  429
\*   http_error    error status, network error, timeout
\*   no_image      200, JSON without url or not parseable
\*   exception     image bytes that cannot be written
V2Outcomes == {"ok_image", "ok", "rate_limited", "http_error", "no_image",
               "exception"}

\* how the body of generate_image_for_slide ends after the legacy answer
LegacyDisposition(kind) ==
    CASE kind = "ok" -> "image"
      [] kind = "rate_limited" -> "ImageError"     \* raise ImageError
      [] kind = "not_found" -> "v2beta"
      [] kind = "http_error" -> "placeholder"      \* except httpx.HTTPError
      [] kind = "no_image" -> "placeholder"
      [] OTHER -> "ImageError"                     \* except Exception: raise

\* ... and after the v2beta answer
V2Disposition(kind) ==
    CASE kind = "ok_image" -> "file"
      [] kind = "ok" -> "image"
      [] kind = "rate_limited" -> "ImageError"
      [] kind = "http_error" -> "placeholder"
      [] kind = "no_image" -> "placeholder"
      [] OTHER -> "ImageError"

\* variant: the retry predicate accepts every exception
RetriesImageCall_All(exc) == TRUE

\* retry=retry_if_exception(lambda e: not isinstance(e, ImageError))
RetriesImageCall(exc) == exc # "ImageError"

\* variant: _one has no except clause
OneCatches_Nothing(exc) == FALSE

\* _one: except ImageError ... except Exception
OneCatches(exc) == TRUE

\* variant: one permit too many is handed out
SemaphoreFree_OffByOne(permits) == permits >= 0

\* asyncio.Semaphore: acquire() proceeds while the value is positive
SemaphoreFree(permits) == permits > 0

\* variant: results are collected as the tasks finish
GatherResults_CompletionOrder(results, order) ==
    [k \in 1..Len(order) |-> results[order[k]]]

\* asyncio.gather(*tasks): the results in the order of the tasks
GatherResults(results, order) ==
    [i \in 1..Len(results) |-> results[i]]

\* variant: leaving "async with sem" keeps the permit
Released_Leak(permits) == permits

\* leaving "async with sem", by return or by exception: sem.release()
Released(permits) == permits + 1

\* tasks holding the semaphore
InFlight == {i \in 1..Len(b_task) : b_task[i] \in {"await_legacy", "await_v2", "retry"}}

\* task i leaves "async with sem" returning meta; how tells how its
\* generate_image_for_slide call ended
TaskReturns(i, how, meta) ==
    /\ b_task' = [b_task EXCEPT ![i] = "done"]
    /\ b_call' = [b_call EXCEPT ![i] = how]
    /\ b_taskResult' = [b_taskResult EXCEPT ![i] = meta]
    /\ b_inst' = [b_inst EXCEPT ![i] =
                     IF how = "cached"
                     THEN CachedInstance(ImagesKey(b_slides[i], b_style))
                     ELSE i]
    /\ b_permits' = IF b_task[i] \in {"created", "waiting"}
                    THEN Released(b_permits - 1)   \* acquired in this turn
                    ELSE Released(b_permits)
    /\ b_order' = Append(b_order, i)
    /\ UNCHANGED <<b_attempt, b_pc, b_raised>>

\* the body of generate_image_for_slide raised exc in task i
TaskRaises(i, exc) ==
    IF RetriesImageCall(exc) /\ b_attempt[i] < ImageMaxAttempts
    THEN \* tenacity waits, then runs the body again
         /\ b_task' = [b_task EXCEPT ![i] = "retry"]
         /\ b_attempt' = [b_attempt EXCEPT ![i] = @ + 1]
         /\ b_permits' = IF b_task[i] \in {"created", "waiting"}
                         THEN b_permits - 1 ELSE b_permits
         /\ UNCHANGED <<b_call, b_taskResult, b_inst, b_order, b_pc, b_raised>>
    ELSE IF OneCatches(IF RetriesImageCall(exc) THEN "RetryError" ELSE exc)
    THEN TaskReturns(i, "raised", Placeholder(b_slides[i].title))
    ELSE \* the exception leaves the task; gather hands it to generate_images
         /\ b_task' = [b_task EXCEPT ![i] = "done"]
         /\ b_call' = [b_call EXCEPT ![i] = "raised"]
         /\ b_permits' = IF b_task[i] \in {"created", "waiting"}
                         THEN Released(b_permits - 1)
                         ELSE Released(b_permits)
         /\ b_order' = Append(b_order, i)
         /\ b_pc' = "done"
         /\ b_raised' = TRUE
         /\ UNCHANGED <<b_attempt, b_taskResult, b_inst>>

\* variant: the credential is not looked at
ProviderConfigured_Always(key) == TRUE

\* generate_images: "if not settings.STABILITY_API_KEY" is the test for an
\* available provider
ProviderConfigured(key) == key

\* generate_images up to "await asyncio.gather(*tasks)"
GenerateImages ==
    /\ b_pc = "start"
    /\ IF ~ProviderConfigured(stabilityKey)
       THEN /\ b_pc' = "done"
            /\ b_results' = [i \in 1..Len(b_slides) |-> Placeholder(b_slides[i].title)]
            /\ b_inst' = [i \in 1..Len(b_slides) |-> i]
            /\ UNCHANGED <<b_task, b_attempt, b_permits, b_sent, b_call,
                           b_taskResult>>
       ELSE /\ b_pc' = "gather"
            /\ b_permits' = MaxConcurrency
            /\ b_task' = [i \in 1..Len(b_slides) |-> "created"]
            /\ b_attempt' = [i \in 1..Len(b_slides) |-> 1]
            /\ b_sent' = [i \in 1..Len(b_slides) |-> 0]
            /\ b_call' = [i \in 1..Len(b_slides) |-> "none"]
            /\ b_taskResult' = [i \in 1..Len(b_slides) |-> NoImage]
            /\ b_inst' = [i \in 1..Len(b_slides) |-> 0]
            /\ UNCHANGED b_results
    /\ UNCHANGED <<stabilityKey, b_slides, b_style, b_cache, b_cacheInst, b_order,
                   b_raised>>
    /\ UNCHANGED <<outlineVars, adapterVars, auxVars>>

\* a turn of task i on the event loop that starts (or, after a tenacity
\* wait, restarts) its generate_image_for_slide call: acquire the semaphore
\* in FIFO order, build the prompt, look the cache up, and on a miss build
\* the payload (valid tells whether it validates) and send the request
TaskStart(i, valid) ==
    /\ b_pc = "gather"
    /\ b_task[i] \in {"created", "waiting", "retry"}
    /\ b_task[i] # "retry" => \A j \in 1..(i - 1) : b_task[j] \notin {"created", "waiting"}
    /\ b_task[i] = "waiting" => SemaphoreFree(b_permits)
    /\ IF b_task[i] = "created" /\ ~SemaphoreFree(b_permits)
       THEN \* the semaphore is locked: the task queues up behind it
            /\ b_task' = [b_task EXCEPT ![i] = "waiting"]
            /\ UNCHANGED <<b_attempt, b_permits, b_cache, b_cacheInst, b_sent,
                           b_call, b_taskResult, b_inst, b_order, b_pc, b_raised>>
       ELSE LET key == ImagesKey(b_slides[i], b_style)
            IN  IF CacheHit(b_cache, key, a_clock)
                THEN /\ TaskReturns(i, "cached", CacheValue(b_cache, key))
                     /\ UNCHANGED <<b_cache, b_cacheInst, b_sent>>
                ELSE /\ b_cache' = CacheAfterGet(b_cache, key, a_clock)
                     /\ UNCHANGED b_cacheInst
                     /\ IF ~valid
                        THEN /\ TaskRaises(i, "ImageError")
                             /\ UNCHANGED <<b_sent>>
                        ELSE /\ b_task' = [b_task EXCEPT ![i] = "await_legacy"]
                             /\ b_permits' = IF b_task[i] = "retry"
                                             THEN b_permits ELSE b_permits - 1
                             /\ b_sent' = [b_sent EXCEPT ![i] = @ + 1]
                             /\ UNCHANGED <<b_attempt, b_call, b_taskResult, b_inst,
                                            b_order, b_pc, b_raised>>
    /\ UNCHANGED <<stabilityKey, b_slides, b_style, b_results>>
    /\ UNCHANGED <<outlineVars, adapterVars, auxVars>>

\* every created task has had its first turn: answers can be delivered
BurstOver == \A j \in 1..Len(b_task) : b_task[j] # "created"

\* the image of slide i obtained from an upstream answer is cached and returned
TaskCaches(i, meta) ==
    /\ b_cache' = CacheSet(b_cache, ImagesKey(b_slides[i], b_style), meta, a_clock)
    /\ b_cacheInst' =
           {p \in b_cacheInst : /\ p[1] # ImagesKey(b_slides[i], b_style)
                                /\ p[1] \in CacheKeys(b_cache')}
              \cup {<<ImagesKey(b_slides[i], b_style), i>>}
    /\ TaskReturns(i, "image", meta)

\* the POST /images/generations exchange of task i completes
LegacyImageResponse(i, kind) ==
    /\ b_pc = "gather"
    /\ BurstOver
    /\ b_task[i] = "await_legacy"
    /\ LET disp == LegacyDisposition(kind)
       IN  CASE disp = "image" ->
                  /\ TaskCaches(i, ImageMeta(UpstreamUrl(i), b_slides[i].title,
                                             "stability-ai"))
                  /\ UNCHANGED <<b_sent>>
             [] disp = "v2beta" ->
                  /\ b_task' = [b_task EXCEPT ![i] = "await_v2"]
                  /\ b_sent' = [b_sent EXCEPT ![i] = @ + 1]
                  /\ UNCHANGED <<b_attempt, b_permits, b_cache, b_cacheInst, b_call,
                                 b_taskResult, b_inst, b_order, b_pc, b_raised>>
             [] disp = "placeholder" ->
                  /\ TaskReturns(i, "placeholder", Placeholder(b_slides[i].title))
                  /\ UNCHANGED <<b_cache, b_cacheInst, b_sent>>
             [] disp = "ImageError" ->
                  /\ TaskRaises(i, "ImageError")
                  /\ UNCHANGED <<b_cache, b_cacheInst, b_sent>>
    /\ UNCHANGED <<stabilityKey, b_slides, b_style, b_results>>
    /\ UNCHANGED <<outlineVars, adapterVars, auxVars>>

\* the POST /v2beta/stable-image/generate/core exchange of task i completes
V2Response(i, kind) ==
    /\ b_pc = "gather"
    /\ BurstOver
    /\ b_task[i] = "await_v2"
    /\ LET disp == V2Disposition(kind)
       IN  CASE disp = "file" ->
                  TaskCaches(i, ImageMeta(SavedImageUrl(i), b_slides[i].title,
                                          "stability-ai"))
             [] disp = "image" ->
                  TaskCaches(i, ImageMeta(UpstreamUrl(i), b_slides[i].title,
                                          "stability-ai"))
             [] disp = "placeholder" ->
                  /\ TaskReturns(i, "placeholder", Placeholder(b_slides[i].title))
                  /\ UNCHANGED <<b_cache, b_cacheInst>>
             [] disp = "ImageError" ->
                  /\ TaskRaises(i, "ImageError")
                  /\ UNCHANGED <<b_cache, b_cacheInst>>
    /\ UNCHANGED <<stabilityKey, b_slides, b_style, b_sent,
                   b_results>>
    /\ UNCHANGED <<outlineVars, adapterVars, auxVars>>

\* every task is done: gather returns and generate_images returns the list
Gather ==
    /\ b_pc = "gather"
    /\ \A i \in 1..Len(b_task) : b_task[i] = "done"
    /\ b_pc' = "done"
    /\ b_results' = GatherResults(b_taskResult, b_order)
    /\ UNCHANGED <<stabilityKey, b_slides, b_style, b_task, b_attempt, b_permits,
                   b_cache, b_cacheInst, b_sent, b_call, b_taskResult, b_inst,
                   b_order, b_raised>>
    /\ UNCHANGED <<outlineVars, adapterVars, auxVars>>

\* titles of the slides of a batch
BatchTitles == {"AI", "Data"}

\* slide batches: one bullet list each
BatchSlides ==
    UNION {[1..n -> {[title |-> t, bullets |-> <<"Point">>] : t \in BatchTitles}]
              : n \in 1..MaxBatch}

ImagesInit ==
    /\ OutlineIdle
    /\ AdapterIdle
    /\ AuxIdle
    /\ stabilityKey \in BOOLEAN
    /\ b_slides \in BatchSlides
    /\ b_style \in Styles
    /\ b_pc = "start"
    /\ b_task = <<>>
    /\ b_attempt = <<>>
    /\ b_permits = 0
    /\ b_cache = <<>>
    /\ b_cacheInst = {}
    /\ b_sent = <<>>
    /\ b_call = <<>>
    /\ b_taskResult = <<>>
    /\ b_inst = <<>>
    /\ b_order = <<>>
    /\ b_results = <<>>
    /\ b_raised = FALSE

ImagesNext ==
    \/ GenerateImages
    \/ \E i \in 1..Len(b_task), valid \in BOOLEAN : TaskStart(i, valid)
    \/ \E i \in 1..Len(b_task), kind \in LegacyImageOutcomes :
          LegacyImageResponse(i, kind)
    \/ \E i \in 1..Len(b_task), kind \in V2Outcomes : V2Response(i, kind)
    \/ Gather

SpecImages == ImagesInit /\ [][ImagesNext]_vars

\* the event loop gives every ready task its turn, every upstream exchange
\* ends (with an answer, an error or the client's timeout), and gather
\* resumes generate_images once all tasks are done
ImagesFairness ==
    /\ WF_vars(GenerateImages)
    /\ WF_vars(Gather)
    /\ \A i \in 1..MaxBatch :
          /\ WF_vars(i \in DOMAIN b_task /\ \E valid \in BOOLEAN : TaskStart(i, valid))
          /\ WF_vars(i \in DOMAIN b_task
                        /\ \E kind \in LegacyImageOutcomes : LegacyImageResponse(i, kind))
          /\ WF_vars(i \in DOMAIN b_task
                        /\ \E kind \in V2Outcomes : V2Response(i, kind))

\* the batches termination is checked for: no style, and the slides after
\* the first share a title (equal to the first slide's or not)
ImagesLiveInit ==
    /\ ImagesInit
    /\ b_style = ""
    /\ \A i \in 2..Len(b_slides) : b_slides[i].title = b_slides[Len(b_slides)].title

SpecImagesLive == ImagesLiveInit /\ [][ImagesNext]_vars /\ ImagesFairness


(***************************************************************************)
(* Properties of generate_images                                           *)
(***************************************************************************)

\* the generate_image_for_slide call of slide i produced no image: it
\* raised, or it returned the placeholder itself
GenerationFailed(i) == b_call[i] \in {"raised", "placeholder"}

\* C6: generate_images never raises; once it has returned, a slide whose
\* generation raised holds the placeholder for its own title, and result[i]
\* has provider "placeholder" exactly when generation for slide i failed, so
\* the images of the other slides are the ones their own calls produced.
C6_BatchNeverRaises ==
    /\ ~b_raised
    /\ (b_pc = "done" /\ stabilityKey) =>
          /\ Len(b_results) = Len(b_slides)
          /\ \A i \in 1..Len(b_slides) :
                /\ b_call[i] = "raised" =>
                      b_results[i] = Placeholder(b_slides[i].title)
                /\ (b_results[i].provider = "placeholder") <=> GenerationFailed(i)
                /\ ~GenerationFailed(i) => b_results[i].provider = "stability-ai"

\* one slide's call raised ImageError, another slide got its image
C6_Witness ==
    /\ b_pc = "done" /\ stabilityKey
    /\ \E i, j \in 1..Len(b_slides) :
          /\ b_call[i] = "raised"
          /\ b_results[i].provider = "placeholder"
          /\ b_call[j] = "image"
          /\ b_results[j].provider = "stability-ai"

\* C7: whatever the completion order, the returned list is as long as the
\* input and result[i] is what the call for slide i produced (for a
\* generated image: the answer to slide i's own request).
C7_OrderPreserved ==
    (b_pc = "done" /\ ~b_raised) =>
        /\ Len(b_results) = Len(b_slides)
        /\ \A i \in 1..Len(b_slides) :
              IF stabilityKey
              THEN /\ b_results[i] = b_taskResult[i]
                   /\ b_call[i] = "image" =>
                         b_results[i].url \in {UpstreamUrl(i),
                                               SavedImageUrl(i)}
              ELSE b_results[i] = Placeholder(b_slides[i].title)

\* the second slide's image arrived before the first slide's
C7_Witness ==
    /\ b_pc = "done" /\ stabilityKey /\ ~b_raised
    /\ Len(b_slides) >= 2 /\ Len(b_order) >= 2
    /\ b_order[1] = 2
    /\ b_call[1] = "image" /\ b_call[2] = "image"
    /\ b_results[1].url # b_results[2].url

\* C8: at every moment at most IMAGE_MAX_CONCURRENCY per-slide calls are in
\* flight, and the semaphore accounts for each of them.
C8_BoundedConcurrency ==
    /\ Cardinality(InFlight) <= MaxConcurrency
    /\ b_pc = "gather" => b_permits + Cardinality(InFlight) = MaxConcurrency

\* the limit is reached while a further slide waits for a permit
C8_Witness ==
    /\ Cardinality(InFlight) = MaxConcurrency
    /\ \E i \in 1..Len(b_task) : b_task[i] = "waiting"

\* C10: a finished batch of two slides with identical title, bullets and
\* style, in which no upstream exchange failed, has sent exactly one
\* upstream request, and the second slide was served from the cache.
C10_TwinsShareOneRequest ==
    (/\ b_pc = "done" /\ stabilityKey
     /\ Len(b_slides) = 2 /\ b_slides[1] = b_slides[2]
     /\ \A i \in 1..2 : ~GenerationFailed(i)) =>
        /\ RequestsSent = 1
        /\ b_call[2] = "cached"


(***************************************************************************)
(* image_providers/__init__.py, image_providers/registry.py                *)
(***************************************************************************)

Range(seq) == {seq[i] : i \in 1..Len(seq)}

\* values settings.DEFAULT_IMAGE_PROVIDER can be configured to
DefaultChoices == ProviderNames \cup {"unregistered"}

\* lists settings.IMAGE_PROVIDER_FALLBACK_ORDER can be configured to
FallbackLists == UNION {[1..n -> ProviderNames] : n \in 0..MaxFallback}

\* caller preferences ("" stands for None)
Preferences == ProviderNames \cup {"", "unregistered"}

\* ImageProviderFactory.register_provider: cls._providers[name] = provider_class
\* (a name registered again keeps its place in the dict)
Registered(registered, name) ==
    IF name \in Range(registered) THEN registered ELSE Append(registered, name)

\* variant: is_available() is not consulted
AvailableProviders_Unfiltered(registered, keys) == registered

\* ImageProviderFactory.get_available_providers: the names, in registration
\* order, whose fresh instance answers is_available() (bool(self.api_key))
AvailableProviders(registered, keys) ==
    SelectSeq(registered, LAMBDA n : keys[n])

\* first name of the fallback list that is in available
FirstFallback(fallback, available) ==
    fallback[CHOOSE i \in 1..Len(fallback) :
                /\ fallback[i] \in Range(available)
                /\ \A j \in 1..(i - 1) : fallback[j] \notin Range(available)]

\* get_best_available_provider(preferred_provider): name of the adapter returned
BestAvailableProvider(preferred, registered, keys, default, fallback) ==
    LET available == AvailableProviders(registered, keys)
    IN  IF available = <<>> THEN "None"
        ELSE IF preferred # "" /\ preferred \in Range(available) THEN preferred
        ELSE IF default \in Range(available) THEN default
        ELSE IF \E i \in 1..Len(fallback) : fallback[i] \in Range(available)
             THEN FirstFallback(fallback, available)
        ELSE available[1]      \* list(available.keys())[0]

\* prompts an adapter caches an image under
PromptKeys == {"ai"}

\* variant: one cache per adapter class
FreshCache_ClassLevel(objects, name) ==
    UNION {objects[i].cache : i \in {j \in 1..Len(objects) : objects[j].name = name}}

\* __init__ of both adapters: self._cache = {}
FreshCache(objects, name) == {}

\* provider_class() for each of names, in order: the objects constructed
Constructed(objects, names) ==
    [i \in 1..Len(names) |->
        [name |-> names[i], cache |-> FreshCache(objects, names[i])]]

\* the object of the adapter called name among those one lookup constructed
\* after the first base objects
ObjectOf(base, names, name) ==
    base + (CHOOSE i \in 1..Len(names) : names[i] = name)

\* register_providers registers the two classes; the factory takes them in
\* any order
RegisterProvider(name) ==
    /\ r_registered' = Registered(r_registered, name)
    /\ r_pc' = "idle"
    /\ r_preferred' = ""
    /\ r_result' = "None"
    /\ UNCHANGED <<r_keys, r_default, r_fallback, g_objects, g_last>>
    /\ UNCHANGED <<outlineVars, adapterVars, imagesVars, extractVars, cacheVars, lateVars>>

\* one call of get_best_available_provider
GetBestAvailableProvider(preferred) ==
    /\ Len(g_objects) + Len(r_registered) <= MaxInstances
    /\ r_pc' = "resolved"
    /\ r_preferred' = preferred
    /\ r_result' = BestAvailableProvider(preferred, r_registered, r_keys,
                                         r_default, r_fallback)
    /\ g_objects' = g_objects \o Constructed(g_objects, r_registered)
    /\ g_last' = IF r_result' = "None" THEN {}
                 ELSE {ObjectOf(Len(g_objects), r_registered, r_result')}
    /\ UNCHANGED <<r_registered, r_keys, r_default, r_fallback>>
    /\ UNCHANGED <<outlineVars, adapterVars, imagesVars, extractVars, cacheVars, lateVars>>

\* one call of get_available_providers: an object of every registered class
\* is constructed, those that are available are returned
GetAvailableProviders ==
    /\ Len(g_objects) + Len(r_registered) <= MaxInstances
    /\ g_objects' = g_objects \o Constructed(g_objects, r_registered)
    /\ g_last' = {ObjectOf(Len(g_objects), r_registered, n) :
                     n \in Range(AvailableProviders(r_registered, r_keys))}
    /\ UNCHANGED <<r_registered, r_keys, r_default, r_fallback, r_pc,
                   r_preferred, r_result>>
    /\ UNCHANGED <<outlineVars, adapterVars, imagesVars, extractVars, cacheVars, lateVars>>

\* one call of get_provider(name): None for a name that is not registered
GetProvider(name) ==
    /\ Len(g_objects) + 1 <= MaxInstances
    /\ IF name \in Range(r_registered)
       THEN /\ g_objects' = g_objects \o Constructed(g_objects, <<name>>)
            /\ g_last' = {Len(g_objects) + 1}
       ELSE /\ g_last' = {}
            /\ UNCHANGED g_objects
    /\ UNCHANGED <<r_registered, r_keys, r_default, r_fallback, r_pc,
                   r_preferred, r_result>>
    /\ UNCHANGED <<outlineVars, adapterVars, imagesVars, extractVars, cacheVars, lateVars>>

\* generate_image of an adapter a lookup returned saved an image:
\* self._cache_set(prompt, meta)
ProviderCacheSet(id, key) ==
    /\ id \in g_last
    /\ key \notin g_objects[id].cache
    /\ g_objects' = [g_objects EXCEPT ![id].cache = @ \cup {key}]
    /\ UNCHANGED <<r_registered, r_keys, r_default, r_fallback, r_pc,
                   r_preferred, r_result, g_last>>
    /\ UNCHANGED <<outlineVars, adapterVars, imagesVars, extractVars, cacheVars, lateVars>>

RegistryInit ==
    /\ OutlineIdle
    /\ AdapterIdle
    /\ ImagesIdle
    /\ ExtractIdle
    /\ CacheIdle
    /\ LateIdle
    /\ r_registered = <<>>
    /\ r_keys \in [ProviderNames -> BOOLEAN]
    /\ r_default \in DefaultChoices
    /\ r_fallback \in FallbackLists
    /\ r_pc = "idle"
    /\ r_preferred = ""
    /\ r_result = "None"
    /\ g_objects = <<>>
    /\ g_last = {}

RegistryNext ==
    \/ \E name \in ProviderNames : RegisterProvider(name)
    \/ \E preferred \in Preferences : GetBestAvailableProvider(preferred)
    \/ GetAvailableProviders
    \/ \E name \in ProviderNames \cup {"unregistered"} : GetProvider(name)
    \/ \E id \in 1..Len(g_objects), key \in PromptKeys : ProviderCacheSet(id, key)

SpecRegistry == RegistryInit /\ [][RegistryNext]_vars


(***************************************************************************)
(* Properties of the registry                                              *)
(***************************************************************************)

\* the registered adapters that pass is_available
AvailableNames == {n \in Range(r_registered) : r_keys[n]}

\* C11: a resolved call returns the caller's preferred adapter if it is
\* available; else the configured default if available; else the first
\* available name of the fallback list; else the first available adapter in
\* registration order; it returns None exactly when no adapter is available
\* and a returned adapter is always available.
C11_ResolutionOrder ==
    r_pc = "resolved" =>
        /\ (r_result = "None") <=> (AvailableNames = {})
        /\ r_result # "None" => r_result \in AvailableNames
        /\ IF r_preferred \in AvailableNames THEN r_result = r_preferred
           ELSE IF r_default \in AvailableNames THEN r_result = r_default
           ELSE IF \E i \in 1..Len(r_fallback) : r_fallback[i] \in AvailableNames
                THEN \E i \in 1..Len(r_fallback) :
                        /\ r_result = r_fallback[i]
                        /\ \A j \in 1..(i - 1) : r_fallback[j] \notin AvailableNames
           ELSE IF AvailableNames # {}
                THEN \E i \in 1..Len(r_registered) :
                        /\ r_result = r_registered[i]
                        /\ \A j \in 1..(i - 1) : r_registered[j] \notin AvailableNames
           ELSE r_result = "None"

\* neither preference, default nor fallback list names an available adapter,
\* two adapters are available, and the first registered one is returned
C11_Witness ==
    /\ r_pc = "resolved"
    /\ r_preferred \notin AvailableNames
    /\ r_default \notin AvailableNames
    /\ \A i \in 1..Len(r_fallback) : r_fallback[i] \notin AvailableNames
    /\ Cardinality(AvailableNames) = 2
    /\ r_registered[1] = "dalle"
    /\ r_result = "dalle"


(***************************************************************************)
(* Further properties of generate_outline                                  *)
(***************************************************************************)

LastRequest == o_requests[Len(o_requests)]

\* the answers that are transient failures: 5xx, network error, timeout
TransientOutcomes == {"server_error", "timeout"}

\* the original wording of C12: a model that is not in the configured
\* allow-list sends no request, whatever the allow-list is
C12_Original ==
    SelectedModel(reqModel) \notin allowedModels => o_requests = <<>>

\* C12 (amended): if the allow-list is not empty and the requested model
\* (the default model when none is requested) is not in it, no upstream
\* request, chat-completion or legacy, is sent at any point of the call.
C12_DisallowedSendsNothing ==
    (allowedModels # {} /\ SelectedModel(reqModel) \notin allowedModels)
        => o_requests = <<>>

\* a call with a credential and a disallowed model went through all its
\* attempts without a request
C12_Witness ==
    /\ apiKey
    /\ allowedModels # {} /\ SelectedModel(reqModel) \notin allowedModels
    /\ o_pc = "done"
    /\ o_attempt = OutlineMaxAttempts
    /\ o_requests = <<>>

\* C13: once the upstream has answered 429, no further upstream request is
\* sent for that generate_outline call.
C13_RateLimitEndsRequests ==
    [][("rate_limited" \in o_seen) => (o_requests' = o_requests)]_vars

\* C14: the outline call is attempted at most 3 times; tenacity does not
\* wait for a further attempt after the third; a call whose every upstream
\* exchange failed ends after the third attempt with the failure (tenacity's
\* RetryError around the last error) raised to generate_outline, having sent
\* at most the two requests of each attempt.
C14_AtMostThreeAttempts ==
    /\ o_attempt <= OutlineMaxAttempts
    /\ Len(o_requests) <= 2 * OutlineMaxAttempts
    /\ o_pc = "backoff" => o_attempt < OutlineMaxAttempts
    /\ (o_pc = "done" /\ apiKey /\ "ok" \notin o_seen) =>
          /\ o_attempt = OutlineMaxAttempts
          /\ o_caught = RetryError(o_lastError)

\* three attempts failed with transient errors only
C14_Witness ==
    /\ o_pc = "done"
    /\ o_seen # {} /\ o_seen \subseteq TransientOutcomes
    /\ o_attempt = OutlineMaxAttempts
    /\ Len(o_requests) = 2 * OutlineMaxAttempts
    /\ o_caught.type = "RetryError"
    /\ o_caught.kind = "http_error"

\* C15: within an attempt, a chat-completion request that failed (error
\* status, 429, network error, unusable body) is always followed by the
\* legacy /generate request before the attempt counts as failed; when the
\* legacy request succeeds, its parsed slides are what generate_outline
\* returns.
C15_LegacyTriedBeforeFailure ==
    /\ \A i \in 1..(Len(o_requests) - 1) :
          o_requests[i] = "/chat/completions" => o_requests[i + 1] = "/generate"
    /\ (o_requests # <<>> /\ o_pc \in {"backoff", "attempt"}) =>
          LastRequest = "/generate"
    /\ (o_requests # <<>> /\ o_pc = "done" /\ o_caught # NoError) =>
          LastRequest = "/generate"
    /\ (o_requests # <<>> /\ o_pc = "done" /\ o_caught = NoError
            /\ LastRequest = "/generate") =>
          /\ o_outcome = "returned"
          /\ \E k \in 0..MaxUpstreamSlides : o_result = UpstreamSlides(k)

\* the chat-completion answer was unusable, the legacy answer was not
C15_Witness ==
    /\ o_pc = "done" /\ o_outcome = "returned" /\ o_caught = NoError
    /\ o_requests = <<"/chat/completions", "/generate">>
    /\ "malformed" \in o_seen
    /\ o_result = UpstreamSlides(MaxUpstreamSlides)

\* C17: with require-upstream set, a generate_outline call made without an
\* API credential or with a disallowed model ends by raising, never by
\* returning an outline.
C17_RequireUpstreamNoSilentFallback ==
    (/\ requireUpstream
     /\ o_pc = "done"
     /\ \/ ~apiKey
        \/ (allowedModels # {} /\ SelectedModel(reqModel) \notin allowedModels))
        => o_outcome = "raised"


(***************************************************************************)
(* Further properties of a provider adapter's generate_image               *)
(***************************************************************************)

\* C18: a generate_image call that ended on a transient upstream failure
\* (network error, timeout, 5xx) gave up only after 3 upstream attempts.
C18_TransientRetried ==
    \A i \in 1..Len(a_hist) :
        a_hist[i].kind = "http_error" => a_hist[i].sent = ImageMaxAttempts


(***************************************************************************)
(* llm.py: _extract_first_json_object and its caller                       *)
(***************************************************************************)

\* A model answer is a sequence of tokens separated by white space:
\*   {  }  [  ]     the JSON brackets
\*   k              a member name with its colon ("k":)
\*   w              a word of prose
\*   <fence json>   three backquotes followed by json
\*   <fence>        three backquotes
Tokens == {"{", "}", "[", "]", "k", "w", "<fence json>", "<fence>"}

Texts == UNION {[1..n -> Tokens] : n \in 0..MaxTextLen}

\* json.loads(text) succeeds: text is one JSON value, here
\*   []  [value]  {}  {"k": value}
RECURSIVE IsJson(_)
IsJson(t) ==
    /\ Len(t) >= 2
    /\ \/ /\ t[1] = "[" /\ t[Len(t)] = "]"
          /\ (Len(t) = 2 \/ IsJson(SubSeq(t, 2, Len(t) - 1)))
       \/ /\ t[1] = "{" /\ t[Len(t)] = "}"
          /\ (Len(t) = 2 \/ (t[2] = "k" /\ IsJson(SubSeq(t, 3, Len(t) - 1))))

\* isinstance(parsed_obj, dict) for a text json.loads accepted
IsObject(t) == t # <<>> /\ t[1] = "{"

\* first index >= from that holds one of the tokens, 0 if there is none
RECURSIVE FirstIndex(_, _, _)
FirstIndex(t, from, toks) ==
    IF from > Len(t) THEN 0
    ELSE IF t[from] \in toks THEN from
    ELSE FirstIndex(t, from + 1, toks)

\* re.search(<fence json> \s* ([\s\S]*?) \s* <fence>, text): whether it
\* matches, and group(1). The match opens at the first <fence json> and,
\* being non-greedy, closes at the first three backquotes after it, which
\* may be the head of another <fence json>
FenceOpen(t) == FirstIndex(t, 1, {"<fence json>"})

FenceClose(t) ==
    IF FenceOpen(t) = 0 THEN 0
    ELSE FirstIndex(t, FenceOpen(t) + 1, {"<fence json>", "<fence>"})

Fenced(t) == FenceClose(t) # 0

FencedGroup(t) == SubSeq(t, FenceOpen(t) + 1, FenceClose(t) - 1)

\* the inner for loop: index of the "}" that brings depth back to 0 when
\* scanning from position i with the given depth, 0 if the text ends first
RECURSIVE CloseIndex(_, _, _)
CloseIndex(t, i, depth) ==
    IF i > Len(t) THEN 0
    ELSE IF t[i] = "{" THEN CloseIndex(t, i + 1, depth + 1)
    ELSE IF t[i] = "}"
         THEN IF depth - 1 = 0 THEN i ELSE CloseIndex(t, i + 1, depth - 1)
    ELSE CloseIndex(t, i + 1, depth)

\* the while loop over start = text.find("{", ...): the first balanced
\* candidate json.loads accepts, <<>> if the loop runs out
RECURSIVE BalancedFrom(_, _)
BalancedFrom(t, start) ==
    IF start = 0 THEN <<>>
    ELSE LET close == CloseIndex(t, start, 0)
         IN  IF close # 0 /\ IsJson(SubSeq(t, start, close))
             THEN SubSeq(t, start, close)
             ELSE BalancedFrom(t, FirstIndex(t, start + 1, {"{"}))

\* _extract_first_json_object(text): (ok, obj) and the branch that returned
ExtractFirstJsonObject(t) ==
    IF IsJson(t)
    THEN [ok |-> TRUE, value |-> t, tier |-> "direct"]
    ELSE IF Fenced(t) /\ IsJson(FencedGroup(t))
    THEN [ok |-> TRUE, value |-> FencedGroup(t), tier |-> "fenced"]
    ELSE IF BalancedFrom(t, FirstIndex(t, 1, {"{"})) # <<>>
    THEN [ok |-> TRUE, value |-> BalancedFrom(t, FirstIndex(t, 1, {"{"})),
          tier |-> "braces"]
    ELSE [ok |-> FALSE, value |-> <<>>, tier |-> "none"]

\* _call_openrouter: "if not ok or not isinstance(parsed_obj, dict): raise
\* LLMError('Malformed LLM response: no JSON content')"
MalformedResponse(res) == ~res.ok \/ ~IsObject(res.value)

\* the extraction of one answer and the caller's test of its result
ExtractJson ==
    /\ x_pc = "start"
    /\ x_pc' = "done"
    /\ LET res == ExtractFirstJsonObject(x_text)
       IN  /\ x_ok' = res.ok
           /\ x_value' = res.value
           /\ x_tier' = res.tier
           /\ x_malformed' = MalformedResponse(res)
    /\ UNCHANGED x_text
    /\ UNCHANGED <<outlineVars, adapterVars, imagesVars, registryVars, cacheVars, lateVars>>

ExtractInit ==
    /\ OutlineIdle
    /\ AdapterIdle
    /\ ImagesIdle
    /\ RegistryIdle
    /\ CacheIdle
    /\ LateIdle
    /\ x_text \in Texts
    /\ x_pc = "start"
    /\ x_ok = FALSE
    /\ x_value = <<>>
    /\ x_tier = "none"
    /\ x_malformed = FALSE

ExtractNext == ExtractJson

SpecExtract == ExtractInit /\ [][ExtractNext]_vars


(***************************************************************************)
(* Properties of the JSON extraction                                       *)
(***************************************************************************)

\* some part of the text that one of the three tiers looks at is a JSON
\* object: the whole text, the content of the fenced block, or a balanced
\* {...} substring
SomeTierYieldsObject(t) ==
    \/ IsJson(t) /\ IsObject(t)
    \/ Fenced(t) /\ IsJson(FencedGroup(t)) /\ IsObject(FencedGroup(t))
    \/ \E i \in 1..Len(t) : \E j \in i..Len(t) :
          /\ t[i] = "{"
          /\ IsJson(SubSeq(t, i, j))

\* C16: the answer is treated as malformed exactly when none of the three
\* tiers (whole text, fenced block, balanced braces) yields a JSON object.
C16_MalformedOnlyIfNoTierYields ==
    x_pc = "done" => (x_malformed <=> ~SomeTierYieldsObject(x_text))


(***************************************************************************)
(* The image cache on its own: _cache_get and _cache_set of images.py,     *)
(* StabilityProvider and DalleProvider, called in any order                *)
(***************************************************************************)

\* the slides whose prompts are looked up and stored
CacheSlides == {SlidePlan(t, b) : t \in BatchTitles, b \in BulletLists}

\* _cache_get(key) for the prompt of a slide
CacheGetCall(slide, style) ==
    LET key == ImagesKey(slide, style)
    IN  /\ c_op' = "get"
        /\ c_key' = key
        /\ c_hit' = CacheHit(c_cache, key, c_clock)
        /\ c_value' = IF CacheHit(c_cache, key, c_clock)
                      THEN CacheValue(c_cache, key) ELSE NoImage
        /\ c_cache' = CacheAfterGet(c_cache, key, c_clock)
        /\ c_evicted' = CacheKeys(c_cache) \ CacheKeys(c_cache')
        /\ UNCHANGED c_clock
        /\ UNCHANGED <<outlineVars, adapterVars, imagesVars, registryVars,
                       extractVars, lateVars>>

\* _cache_set(key, meta) with the image generated for a slide
CacheSetCall(slide, style) ==
    LET key == ImagesKey(slide, style)
        meta == ImageMeta(SavedImageUrl(c_clock), slide.title, "stability-ai")
    IN  /\ c_op' = "set"
        /\ c_key' = key
        /\ c_hit' = FALSE
        /\ c_value' = NoImage
        /\ c_cache' = CacheSet(c_cache, key, meta, c_clock)
        /\ c_evicted' = CacheKeys(c_cache) \ CacheKeys(c_cache')
        /\ UNCHANGED c_clock
        /\ UNCHANGED <<outlineVars, adapterVars, imagesVars, registryVars,
                       extractVars, lateVars>>

\* wall-clock time passes between two operations
CacheTick ==
    /\ c_clock < MaxClock
    /\ c_clock' = c_clock + 1
    /\ c_op' = "tick"
    /\ c_key' = ""
    /\ c_hit' = FALSE
    /\ c_value' = NoImage
    /\ c_evicted' = {}
    /\ UNCHANGED c_cache
    /\ UNCHANGED <<outlineVars, adapterVars, imagesVars, registryVars,
                   extractVars, lateVars>>

CacheInit ==
    /\ OutlineIdle
    /\ AdapterIdle
    /\ ImagesIdle
    /\ RegistryIdle
    /\ ExtractIdle
    /\ CacheIdle
    /\ LateIdle

CacheNext ==
    \/ \E slide \in CacheSlides, style \in Styles : CacheGetCall(slide, style)
    \/ \E slide \in CacheSlides, style \in Styles : CacheSetCall(slide, style)
    \/ CacheTick

SpecCache == CacheInit /\ [][CacheNext]_vars


(***************************************************************************)
(* Properties of the image cache                                           *)
(***************************************************************************)

\* C19: after any sequence of lookups and insertions the cache holds at
\* most IMAGE_CACHE_MAX_ENTRIES entries, one per key.
C19_CacheBounded ==
    /\ Len(c_cache) <= MaxCacheEntries
    /\ Cardinality(CacheKeys(c_cache)) = Len(c_cache)

\* an insertion into a full cache has just been made and the cache is full
C19_Witness ==
    /\ c_op = "set"
    /\ c_evicted # {}
    /\ Len(c_cache) = MaxCacheEntries

\* the entries of a cache, without their order
CacheEntries(cache) == {cache[i] : i \in 1..Len(cache)}

\* C20: a _cache_set of a key that is not in the cache evicts, when the
\* cache is at capacity, exactly one entry, whose timestamp is the smallest
\* in the cache, and keeps all the others; below capacity it keeps every
\* entry. In both cases the new entry is in the cache afterwards.
C20_EvictsOldestOnly ==
    [][(c_op' = "set" /\ c_key' \notin CacheKeys(c_cache)) =>
          LET gone == CacheEntries(c_cache) \ CacheEntries(c_cache')
          IN  /\ IF Len(c_cache) >= MaxCacheEntries
                 THEN /\ Cardinality(gone) = 1
                      /\ \A g \in gone : \A e \in CacheEntries(c_cache) :
                            g.ts <= e.ts
                 ELSE gone = {}
              /\ c_key' \in CacheKeys(c_cache')
              /\ Len(c_cache') = Len(c_cache) + 1 - Cardinality(gone)]_vars

\* a new key was stored in a full cache whose entries had different ages;
\* the older one went, the younger one stayed
C20_Witness ==
    /\ c_op = "set"
    /\ Cardinality(c_evicted) = 1
    /\ c_key \notin c_evicted
    /\ Len(c_cache) >= 2
    /\ \E i \in 1..Len(c_cache) :
          /\ c_cache[i].key # c_key
          /\ c_cache[i].ts > 0
          /\ c_cache[i].ts < c_clock

\* C21: a _cache_get of a key whose entry is older than
\* IMAGE_CACHE_TTL_SECONDS reports a miss and removes that entry and no
\* other; a _cache_get of a key whose entry is within the TTL returns the
\* stored value and leaves the cache as it was; so does a miss on an absent
\* key.
C21_LookupHonoursTtl ==
    [][c_op' = "get" =>
          IF c_key' \in CacheKeys(c_cache)
          THEN LET i == CHOOSE i \in 1..Len(c_cache) : c_cache[i].key = c_key'
               IN  IF c_clock - c_cache[i].ts > CacheTtl
                   THEN /\ ~c_hit'
                        /\ c_value' = NoImage
                        /\ CacheEntries(c_cache') = CacheEntries(c_cache) \ {c_cache[i]}
                   ELSE /\ c_hit'
                        /\ c_value' = c_cache[i].value
                        /\ c_cache' = c_cache
          ELSE ~c_hit' /\ c_value' = NoImage /\ c_cache' = c_cache]_vars

\* a lookup has just found an entry older than the TTL and removed it
C21_Witness ==
    /\ c_op = "get"
    /\ ~c_hit
    /\ c_evicted = {c_key}


(***************************************************************************)
(* Further properties of generate_images                                   *)
(***************************************************************************)

\* C22: without a configured credential generate_images starts no per-slide
\* task and sends no upstream request, and what it returns is one
\* placeholder ImageMeta per slide, in the order of the slides.
C22_NoProviderPlaceholders ==
    ~stabilityKey =>
        /\ b_task = <<>>
        /\ RequestsSent = 0
        /\ b_permits = 0
        /\ ~b_raised
        /\ b_pc = "done" =>
              /\ Len(b_results) = Len(b_slides)
              /\ \A i \in 1..Len(b_slides) :
                    b_results[i] = Placeholder(b_slides[i].title)

\* a batch of several slides with different titles was answered without a
\* credential
C22_Witness ==
    /\ ~stabilityKey
    /\ b_pc = "done"
    /\ Len(b_slides) = MaxBatch
    /\ b_slides[1].title # b_slides[2].title
    /\ Len(b_results) = MaxBatch

\* C28: in a finished batch no ImageMeta object is the image of two slides,
\* also when two slides have the same prompt and are served by one cache entry
\* (api/chat.py assigns each returned object to its slide as it is).
C28_NoSharedImageMeta ==
    (b_pc = "done" /\ ~b_raised) =>
        \A i, j \in 1..Len(b_inst) : i # j => b_inst[i] # b_inst[j]

\* a finished batch whose twin slides were both answered, one from the cache
C28_TwinServedFromCache ==
    /\ b_pc = "done"
    /\ ~b_raised
    /\ \E i, j \in 1..Len(b_call) :
          /\ i # j
          /\ b_slides[i] = b_slides[j]
          /\ b_call[j] = "cached"

(***************************************************************************)
(* socketio_app.py: emit_progress, emit_completed, resume                  *)
(***************************************************************************)

\* socket ids of connected clients
ClientSids == {"sid-a", "sid-b"}

\* fromIndex values a client sends: any int, negative ones included
FromIndexes == -1..MaxEvents

\* UUID(str(session_id)) returns; it raises ValueError for the other ids
IsUuid_Any(id) == TRUE

IsUuid(id) == id # "not-a-uuid"

\* buf[from_index:] of a Python list: a negative index counts from the end,
\* and both ends are clamped to the list
PySliceFrom(buf, k) ==
    LET n == Len(buf)
        start == IF k < 0
                 THEN (IF n + k < 0 THEN 0 ELSE n + k)
                 ELSE (IF k > n THEN n ELSE k)
    IN SubSeq(buf, start + 1, n)

\* the common body of emit_progress and emit_completed; the payload of the
\* call is its number
EmitEvent(type, session) ==
    /\ n_emits < MaxEvents
    /\ n_emits' = n_emits + 1
    /\ n_op' = [op |-> "emit_" \o type, session |-> session,
                fromIndex |-> 0, sid |-> ""]
    /\ n_sent' = <<>>
    /\ n_raised' = FALSE
    /\ IF ~IsUuid(session)
       THEN UNCHANGED <<n_recent, n_published>>
       ELSE /\ n_recent' = [n_recent EXCEPT ![session] =
                               Append(@, [type |-> type, data |-> n_emits + 1])]
            /\ n_published' = Append(n_published,
                                     [event |-> "slide:" \o type,
                                      data |-> n_emits + 1,
                                      room |-> session])
    /\ UNCHANGED <<outlineVars, adapterVars, imagesVars, registryVars,
                   extractVars, cacheVars, pptxVars, connectVars,
                   tailVars>>

emit_progress(session) == EmitEvent("progress", session)

emit_completed(session) == EmitEvent("completed", session)

\* resume(sid, {"sessionId": session, "fromIndex": fromIndex}); the slice is a
\* copy taken when the handler starts
resume(sid, session, fromIndex) ==
    /\ n_op' = [op |-> "resume", session |-> session,
                fromIndex |-> fromIndex, sid |-> sid]
    /\ n_sent' = LET slice == PySliceFrom(n_recent[session], fromIndex)
                 IN [k \in 1..Len(slice) |->
                        [event |-> "slide:" \o slice[k].type,
                         data |-> slice[k].data,
                         to |-> sid]]
    /\ n_raised' = FALSE
    /\ UNCHANGED <<n_recent, n_published, n_emits>>
    /\ UNCHANGED <<outlineVars, adapterVars, imagesVars, registryVars,
                   extractVars, cacheVars, pptxVars, connectVars,
                   tailVars>>

NotifierInit ==
    /\ OutlineIdle
    /\ AdapterIdle
    /\ ImagesIdle
    /\ RegistryIdle
    /\ ExtractIdle
    /\ CacheIdle
    /\ LateIdle

NotifierNext ==
    \/ \E session \in SessionIds : emit_progress(session)
    \/ \E session \in SessionIds : emit_completed(session)
    \/ \E sid \in ClientSids, session \in SessionIds, k \in FromIndexes :
          resume(sid, session, k)

SpecNotifier == NotifierInit /\ [][NotifierNext]_vars

\* C23: emit_progress and emit_completed called with a session id that is not a
\* well-formed UUID return without raising, change no replay buffer and
\* publish nothing.
C23_MalformedIdNoOp ==
    [][(n_op'.op \in {"emit_progress", "emit_completed"}
           /\ n_emits' = n_emits + 1
           /\ n_op'.session = "not-a-uuid")
          => (~n_raised' /\ n_recent' = n_recent /\ n_published' = n_published)]_vars

\* a call with a malformed id was made on a server that already buffered events
C23_Witness ==
    /\ n_op.op \in {"emit_progress", "emit_completed"}
    /\ n_op.session = "not-a-uuid"
    /\ n_published # <<>>

\* C24: the number of events buffered for a session never exceeds a fixed
\* capacity; the capacity tried is one event less than the calls explored.
C24_ReplayBufferBounded ==
    \A s \in SessionIds : Len(n_recent[s]) <= MaxEvents - 1

\* the events of a buffer at 0-based positions fromIndex and later
EventsFrom(buf, k) ==
    LET skip == IF k <= 0 THEN 0 ELSE IF k >= Len(buf) THEN Len(buf) ELSE k
    IN [j \in 1..(Len(buf) - skip) |-> buf[j + skip]]

\* C25: resume sends to the requester only, in emission order, exactly the
\* buffered events of the session whose index is >= fromIndex.
C25_ResumeReplaysFromIndex ==
    n_op.op = "resume" =>
        LET want == EventsFrom(n_recent[n_op.session], n_op.fromIndex)
        IN /\ Len(n_sent) = Len(want)
           /\ \A k \in 1..Len(n_sent) :
                 /\ n_sent[k].to = n_op.sid
                 /\ n_sent[k].event = "slide:" \o want[k].type
                 /\ n_sent[k].data = want[k].data

\* the same statement for the offsets a list position can take (>= 0)
C25_ResumeFromNonNegativeIndex ==
    (n_op.op = "resume" /\ n_op.fromIndex >= 0) =>
        LET want == EventsFrom(n_recent[n_op.session], n_op.fromIndex)
        IN /\ Len(n_sent) = Len(want)
           /\ \A k \in 1..Len(n_sent) :
                 /\ n_sent[k].to = n_op.sid
                 /\ n_sent[k].event = "slide:" \o want[k].type
                 /\ n_sent[k].data = want[k].data

(***************************************************************************)
(* services/pptx.py: build_pptx                                            *)
(***************************************************************************)

\* what matters of a SlidePlan to the builder: slide_plan.image, slide_plan.notes
DeckSlides == [image : BOOLEAN, notes : BOOLEAN]

Decks == UNION {[1..n -> DeckSlides] : n \in 0..MaxDeckSlides}

\* the statement of the loop body that raises, if any:
\*   text       add_slide, _add_title or _add_bullets
\*   add_image  _add_image (add_picture rejects the bytes)
\*   notes      the assignment to notes_text_frame.text
ComposeFailures == {"none", "text", "add_image", "notes"}

\* the requests.get calls of one slide: _download_image returns None on any
\* error, and then the branded placeholder is downloaded
Fetches(slide, fail, imageOk, placeholderOk) ==
    IF ~slide.image \/ fail = "text"
    THEN <<>>
    ELSE IF imageOk
         THEN <<[url |-> "image", ok |-> TRUE]>>
         ELSE <<[url |-> "image", ok |-> FALSE],
                [url |-> "BRANDED_PLACEHOLDER", ok |-> placeholderOk]>>

\* the picture the slide ends with
Picture(slide, fail, imageOk, placeholderOk) ==
    IF ~slide.image \/ fail \in {"text", "add_image"}
    THEN "none"
    ELSE IF imageOk THEN "image"
         ELSE IF placeholderOk THEN "BRANDED_PLACEHOLDER"
              ELSE "none"

\* 'except Exception: pass' around the loop body
ComposeFailureSwallowed_Never(fail) == FALSE

ComposeFailureSwallowed(fail) == TRUE

\* the 'finally' clause: on_progress is called whatever the body did
ProgressCalled_OnSuccessOnly(fail) == fail = "none"

ProgressCalled(fail) == TRUE

\* prs = _load_template()
LoadTemplate(ok) ==
    /\ p_pc = "start"
    /\ IF ok
       THEN p_pc' = "slides" /\ p_error' = "none"
       ELSE p_pc' = "raised" /\ p_error' = "template"
    /\ UNCHANGED <<p_slides, p_hasCallback, p_idx, p_log, p_progress, p_cbRaised>>
    /\ UNCHANGED <<outlineVars, adapterVars, imagesVars, registryVars,
                   extractVars, cacheVars, notifierVars, connectVars,
                   tailVars>>

\* one iteration of 'for idx, slide_plan in enumerate(slides, start=1)'
ComposeSlide(fail, imageOk, placeholderOk, callbackRaises) ==
    /\ p_pc = "slides"
    /\ p_idx < Len(p_slides)
    /\ LET idx == p_idx + 1
           slide == p_slides[idx]
           called == p_hasCallback /\ ProgressCalled(fail)
       IN /\ fail = "add_image" => slide.image /\ (imageOk \/ placeholderOk)
          /\ fail = "notes" => slide.notes
          /\ p_idx' = idx
          /\ p_log' = Append(p_log,
                 [failed |-> fail,
                  fetched |-> Fetches(slide, fail, imageOk, placeholderOk),
                  picture |-> Picture(slide, fail, imageOk, placeholderOk),
                  notes |-> slide.notes /\ fail = "none"])
          /\ p_progress' = IF called
                           THEN Append(p_progress, <<idx, Len(p_slides)>>)
                           ELSE p_progress
          /\ p_cbRaised' = IF called /\ callbackRaises
                           THEN p_cbRaised + 1
                           ELSE p_cbRaised
          /\ IF fail # "none" /\ ~ComposeFailureSwallowed(fail)
             THEN p_pc' = "raised" /\ p_error' = "slide"
             ELSE UNCHANGED <<p_pc, p_error>>
    /\ UNCHANGED <<p_slides, p_hasCallback>>
    /\ UNCHANGED <<outlineVars, adapterVars, imagesVars, registryVars,
                   extractVars, cacheVars, notifierVars, connectVars,
                   tailVars>>

\* out_dir.mkdir(...); prs.save(str(out_path)); return out_path
Save(ok) ==
    /\ p_pc = "slides"
    /\ p_idx = Len(p_slides)
    /\ IF ok
       THEN p_pc' = "returned" /\ p_error' = "none"
       ELSE p_pc' = "raised" /\ p_error' = "save"
    /\ UNCHANGED <<p_slides, p_hasCallback, p_idx, p_log, p_progress, p_cbRaised>>
    /\ UNCHANGED <<outlineVars, adapterVars, imagesVars, registryVars,
                   extractVars, cacheVars, notifierVars, connectVars,
                   tailVars>>

PptxInit ==
    /\ OutlineIdle
    /\ AdapterIdle
    /\ ImagesIdle
    /\ RegistryIdle
    /\ ExtractIdle
    /\ CacheIdle
    /\ NotifierIdle
    /\ ConnectIdle
    /\ TailIdle
    /\ p_slides \in Decks
    /\ p_hasCallback \in BOOLEAN
    /\ p_pc = "start"
    /\ p_idx = 0
    /\ p_log = <<>>
    /\ p_progress = <<>>
    /\ p_cbRaised = 0
    /\ p_error = "none"

PptxNext ==
    \/ \E ok \in BOOLEAN : LoadTemplate(ok)
    \/ \E fail \in ComposeFailures, imageOk \in BOOLEAN,
          placeholderOk \in BOOLEAN, callbackRaises \in BOOLEAN :
          ComposeSlide(fail, imageOk, placeholderOk, callbackRaises)
    \/ \E ok \in BOOLEAN : Save(ok)

SpecPptx == PptxInit /\ [][PptxNext]_vars

\* C26: once the template is loaded, on_progress has been called exactly once
\* for each slide the loop is through with, with (k, total) for k = 1, 2, ...
\* in this order, whether or not composing slide k failed; a raising
\* on_progress does not end the build, which returns only after all slides.
C26_ProgressOncePerSlide ==
    /\ p_hasCallback =>
          /\ Len(p_progress) = p_idx
          /\ \A k \in 1..Len(p_progress) : p_progress[k] = <<k, Len(p_slides)>>
    /\ ~p_hasCallback => p_progress = <<>>
    /\ p_pc = "returned" => p_idx = Len(p_slides)
    /\ p_cbRaised > 0 => p_error \in {"none", "save"}

\* a returned build in which a slide failed and on_progress raised
C26_Witness ==
    /\ p_pc = "returned"
    /\ p_hasCallback
    /\ Len(p_slides) >= 2
    /\ p_cbRaised > 0
    /\ \E k \in 1..Len(p_log) : p_log[k].failed # "none"

\* C27: a failure while composing a slide is swallowed: the loop goes on to
\* every later slide and the build returns a path unless loading the template
\* or saving fails; a slide whose image download failed has the branded
\* placeholder fetched next.
C27_SlideFailureSwallowed ==
    /\ p_pc = "raised" => p_error \in {"template", "save"}
    /\ p_error = "save" => p_idx = Len(p_slides)
    /\ p_pc = "returned" => Len(p_log) = Len(p_slides)
    /\ \A k \in 1..Len(p_log) :
          LET f == p_log[k].fetched
          IN (f # <<>> /\ ~f[1].ok) =>
                 /\ Len(f) = 2
                 /\ f[2].url = "BRANDED_PLACEHOLDER"
                 /\ (f[2].ok /\ p_log[k].failed = "none")
                       => p_log[k].picture = "BRANDED_PLACEHOLDER"

\* a returned build whose first slide failed and whose second slide got the
\* placeholder after its image download failed
C27_Witness ==
    /\ p_pc = "returned"
    /\ Len(p_log) >= 2
    /\ p_log[1].failed # "none"
    /\ p_log[2].picture = "BRANDED_PLACEHOLDER"

(***************************************************************************)
(* socketio_app.py: connect                                                *)
(***************************************************************************)

\* the Authorization header:
\*   none          absent
\*   valid         "Bearer <access token that verify_token accepts>"
\*   invalid       "Bearer <token>" that verify_token rejects (bad signature,
\*                 expired, refresh token, no subject)
\*   other_scheme  a header that does not start with "bearer "
BearerHeaders == {"none", "valid", "invalid", "other_scheme"}

\* the X-API-Key header: absent, a member of settings.API_KEYS, or another key
ApiKeyHeaders == {"none", "configured", "unknown"}

\* sessionId of the auth payload or query string: absent, a UUID, another text
SessionParams == {"none", "uuid", "malformed"}

\* settings.PROJECT_ENV
ProjectEnvs == {"development", "production", "staging"}

\* verify_token(token, token_type="access") raises HTTPException(401)
VerifyTokenRaises(bearer) == bearer = "invalid"

\* user_ok after the header check
UserOk(bearer) == bearer = "valid"

\* api_key and api_key in (settings.API_KEYS or [])
ApiKeyOk(key) == key = "configured"

\* session_ok: UUID(str(session_id)) accepted the id
SessionOk(session) == session = "uuid"

\* variant: the production check is left out
Admits_NoProductionCheck(requireKey, env, bearer, key, session) ==
    ~(requireKey /\ ~(ApiKeyOk(key) \/ UserOk(bearer)))

\* the value connect returns when no exception escapes the try body
Admits(requireKey, env, bearer, key, session) ==
    IF requireKey /\ ~(ApiKeyOk(key) \/ UserOk(bearer))
    THEN FALSE
    ELSE IF env = "development"
         THEN TRUE
         ELSE IF ~(UserOk(bearer) \/ SessionOk(session)) /\ env = "production"
              THEN FALSE
              ELSE TRUE

\* the whole handler: an exception of verify_token leaves the try body before
\* the session id is looked at
Connect ==
    /\ k_pc = "start"
    /\ k_pc' = "done"
    /\ IF VerifyTokenRaises(k_bearer)
       THEN /\ k_swallowed' = TRUE
            /\ k_admitted' = (k_env = "development")
            /\ k_room' = FALSE
       ELSE /\ k_swallowed' = FALSE
            /\ k_admitted' = Admits(k_requireKey, k_env, k_bearer, k_apiKey,
                                    k_session)
            /\ k_room' = SessionOk(k_session)
    /\ UNCHANGED <<k_requireKey, k_env, k_bearer, k_apiKey, k_session>>
    /\ UNCHANGED <<outlineVars, adapterVars, imagesVars, registryVars,
                   extractVars, cacheVars, notifierVars, pptxVars,
                   tailVars>>

ConnectInit ==
    /\ OutlineIdle
    /\ AdapterIdle
    /\ ImagesIdle
    /\ RegistryIdle
    /\ ExtractIdle
    /\ CacheIdle
    /\ NotifierIdle
    /\ PptxIdle
    /\ TailIdle
    /\ k_requireKey \in BOOLEAN
    /\ k_env \in ProjectEnvs
    /\ k_bearer \in BearerHeaders
    /\ k_apiKey \in ApiKeyHeaders
    /\ k_session \in SessionParams
    /\ k_pc = "start"
    /\ k_admitted = FALSE
    /\ k_room = FALSE
    /\ k_swallowed = FALSE

ConnectNext == Connect

SpecConnect == ConnectInit /\ [][ConnectNext]_vars

\* C29: with REQUIRE_API_KEY true, a connection with neither a configured API
\* key nor a valid bearer token is not admitted, in any PROJECT_ENV and
\* whatever else it presents.
C29_RequiredKeyEnforced ==
    (k_pc = "done" /\ k_requireKey
        /\ ~ApiKeyOk(k_apiKey) /\ ~UserOk(k_bearer)) => ~k_admitted

\* C30: with REQUIRE_API_KEY false, a client presenting a valid bearer token,
\* a configured API key or a well-formed session id is admitted in every
\* PROJECT_ENV.
C30_AnyCredentialAdmitted ==
    (k_pc = "done" /\ ~k_requireKey
        /\ (UserOk(k_bearer) \/ ApiKeyOk(k_apiKey) \/ SessionOk(k_session)))
       => k_admitted

(***************************************************************************)
(* core/rate_limit.py: rate_limit_dependency                               *)
(***************************************************************************)

\* the x-forwarded-for header of a request ("" when absent)
ForwardedFor == {"", "1.1.1.1"}

\* request.headers.get("x-forwarded-for", request.client.host)
ClientKey(forwarded, host) == IF forwarded = "" THEN host ELSE forwarded

\* the comparison with the limit: limiter.hit answers count <= rate.amount,
\* the fallback raises on count > 100
OverLimit_Never(count) == FALSE

OverLimit(count) == count > RateLimitAmount

\* the fixed window of the limits storage: the counter of a key lives from
\* its first hit until its expiry, one window later; every hit is counted
PrimaryAfterHit(counter, now) ==
    IF counter.count = 0 \/ now >= counter.start + RateWindow
    THEN [count |-> 1, start |-> now]
    ELSE [counter EXCEPT !.count = @ + 1]

\* _fallback_counters: restarted when 'now - start > _FALLBACK_WINDOW_SECONDS'
FallbackAfterHit(counter, now) ==
    IF counter.count = 0
    THEN [count |-> 1, start |-> now]
    ELSE IF now - counter.start > RateWindow
         THEN [count |-> 1, start |-> now]
         ELSE [counter EXCEPT !.count = @ + 1]

\* the window a request of a client key falls in: it starts with the key's
\* first request and a request one window later starts the next
WindowAfter(w, now, admitted) ==
    LET cur == IF w.seen = 0 \/ now >= w.start + RateWindow
               THEN [start |-> now, seen |-> 0, admitted |-> 0]
               ELSE w
    IN [cur EXCEPT !.seen = @ + 1,
                   !.admitted = IF admitted THEN @ + 1 ELSE @]

\* one request passing through the dependency
RateLimitDependency(forwarded) ==
    LET key == ClientKey(forwarded, "testclient")
        hit == PrimaryAfterHit(l_primary[key], l_clock)
        fb == FallbackAfterHit(l_fallback[key], l_clock)
    IN /\ l_primary[key].count <= RateLimitAmount
       /\ l_primary' = [l_primary EXCEPT ![key] = hit]
       /\ IF OverLimit(hit.count)
          THEN /\ l_last' = [key |-> key, status |-> 429]
               /\ l_window' = [l_window EXCEPT ![key] = WindowAfter(@, l_clock, FALSE)]
               /\ UNCHANGED l_fallback
          ELSE /\ l_fallback' = [l_fallback EXCEPT ![key] = fb]
               /\ IF OverLimit(fb.count)
                  THEN /\ l_last' = [key |-> key, status |-> 429]
                       /\ l_window' = [l_window EXCEPT ![key] =
                                          WindowAfter(@, l_clock, FALSE)]
                  ELSE /\ l_last' = [key |-> key, status |-> 200]
                       /\ l_window' = [l_window EXCEPT ![key] =
                                          WindowAfter(@, l_clock, TRUE)]
       /\ UNCHANGED l_clock
       /\ UNCHANGED <<outlineVars, adapterVars, imagesVars, registryVars,
                      extractVars, cacheVars, notifierVars, pptxVars,
                      connectVars, editVars>>

\* time passes
LimiterTick ==
    /\ l_clock < MaxLimiterClock
    /\ l_clock' = l_clock + 1
    /\ UNCHANGED <<l_primary, l_fallback, l_window, l_last>>
    /\ UNCHANGED <<outlineVars, adapterVars, imagesVars, registryVars,
                   extractVars, cacheVars, notifierVars, pptxVars,
                   connectVars, editVars>>

LimiterInit ==
    /\ OutlineIdle
    /\ AdapterIdle
    /\ ImagesIdle
    /\ RegistryIdle
    /\ ExtractIdle
    /\ CacheIdle
    /\ LateIdle

LimiterNext ==
    \/ \E forwarded \in ForwardedFor : RateLimitDependency(forwarded)
    \/ LimiterTick

SpecLimiter == LimiterInit /\ [][LimiterNext]_vars

\* C31: per client key, at most the limit of requests is admitted within one
\* window; the request after the limit and every later one of that window
\* gets 429; a request of one key changes no counter of another key.
C31_AdmittedWithinLimit ==
    /\ \A k \in ClientKeys : l_window[k].admitted <= RateLimitAmount
    /\ (l_last.status # 0 /\ l_window[l_last.key].seen > RateLimitAmount)
          => l_last.status = 429

\* a request of one key leaves the counters and the window of the other keys
\* as they were
C31_KeysIndependent ==
    [][\A k \in ClientKeys :
          (l_last'.key # k /\ l_clock' = l_clock)
             => /\ l_primary'[k] = l_primary[k]
                /\ l_fallback'[k] = l_fallback[k]
                /\ l_window'[k] = l_window[k]]_vars

EditTargets == {"title", "bullet", "notes", "image"}

\* the slides of the body, each reduced to len(slide.bullets)
EditDecks == UNION {[1..n -> 0..MaxBullets] : n \in 0..MaxEditSlides}

\* requests that pass EditSlideRequest's validation: slide_index >= 0,
\* bullet_index None (-1 here) or >= 0, and a bullet edit names a bullet
\* (an image edit always carries its image_prompt)
EditRequests ==
    {r \in [slide_index : 0..MaxEditSlides, target : EditTargets,
            bullet_index : -1..MaxBullets] :
        r.target = "bullet" => r.bullet_index >= 0}

\* what the editing service does when it is called
ServiceOutcomes == {"ok", "editing_error", "exception"}

\* the exception raised inside the try block, "none" if it runs to the return
RaisedInTry(slides, r, service) ==
    IF r.slide_index >= Len(slides)
    THEN [type |-> "HTTPException", status |-> 400, detail |-> "out of range"]
    ELSE IF r.target = "bullet" /\ r.bullet_index >= slides[r.slide_index + 1]
         THEN [type |-> "HTTPException", status |-> 400, detail |-> "out of range"]
         ELSE IF service = "editing_error"
              THEN [type |-> "EditingError", status |-> 0, detail |-> "editing failed"]
              ELSE IF service = "exception"
                   THEN [type |-> "Exception", status |-> 0, detail |-> "unexpected"]
                   ELSE [type |-> "none", status |-> 0, detail |-> ""]

\* the calls made to TextEditingService / ImageEditingService: one, unless an
\* index check raised first
ServiceCalls(slides, r) ==
    IF r.slide_index >= Len(slides) THEN 0
    ELSE IF r.target = "bullet" /\ r.bullet_index >= slides[r.slide_index + 1]
         THEN 0
         ELSE 1

\* the two except clauses: (TextEditingError, ImageEditingError) gives 500
\* with str(e); 'except Exception' gives 500 "Internal server error", and
\* HTTPException is an Exception
Surfaced(exc) ==
    IF exc.type = "none"
    THEN [status |-> 200, detail |-> ""]
    ELSE IF exc.type = "EditingError"
         THEN [status |-> 500, detail |-> exc.detail]
         ELSE [status |-> 500, detail |-> "Internal server error"]

EditSlideContent(service) ==
    /\ e_pc = "start"
    /\ e_pc' = "done"
    /\ LET answer == Surfaced(RaisedInTry(e_slides, e_request, service))
       IN /\ e_status' = answer.status
          /\ e_detail' = answer.detail
    /\ e_calls' = ServiceCalls(e_slides, e_request)
    /\ UNCHANGED <<e_slides, e_request>>
    /\ UNCHANGED <<outlineVars, adapterVars, imagesVars, registryVars,
                   extractVars, cacheVars, notifierVars, pptxVars,
                   connectVars, limiterVars>>

EditInit ==
    /\ OutlineIdle
    /\ AdapterIdle
    /\ ImagesIdle
    /\ RegistryIdle
    /\ ExtractIdle
    /\ CacheIdle
    /\ NotifierIdle
    /\ PptxIdle
    /\ ConnectIdle
    /\ LimiterIdle
    /\ e_slides \in EditDecks
    /\ e_request \in EditRequests
    /\ e_pc = "start"
    /\ e_status = 0
    /\ e_detail = ""
    /\ e_calls = 0

EditNext == \E service \in ServiceOutcomes : EditSlideContent(service)

SpecEdit == EditInit /\ [][EditNext]_vars

\* an index of the request lies outside the slides or the bullets
OutOfRange ==
    \/ e_request.slide_index >= Len(e_slides)
    \/ /\ e_request.slide_index < Len(e_slides)
       /\ e_request.bullet_index >= e_slides[e_request.slide_index + 1]

\* C32: an edit request whose slide_index or bullet_index is out of range is
\* answered 400 "out of range", and no editing request was made.
C32_OutOfRangeIs400 ==
    (e_pc = "done" /\ OutOfRange) =>
        /\ e_status = 400
        /\ e_detail = "out of range"
        /\ e_calls = 0

\* what holds of these requests: no editing request is made for a slide_index
\* out of range or for a bullet edit with its bullet_index out of range
C32_NoCallWhenOutOfRange ==
    (e_pc = "done"
       /\ (e_request.slide_index >= Len(e_slides)
             \/ (e_request.target = "bullet"
                   /\ e_request.bullet_index >= e_slides[e_request.slide_index + 1])))
        => e_calls = 0

(***************************************************************************)
(* services/images.py: a 429 answer in generate_image_for_slide            *)
(***************************************************************************)

\* the step in which task i receives a 429, from either endpoint
RateLimitedAnswer(i) ==
    \/ LegacyImageResponse(i, "rate_limited")
    \/ V2Response(i, "rate_limited")

\* C33 as stated: a call answered 429 raises ImageError after exactly one
\* upstream request, and generate_images gives the slide a placeholder.
C33_Original ==
    [][\A i \in 1..Len(b_task) :
          RateLimitedAnswer(i) =>
             /\ b_call'[i] = "raised"
             /\ b_sent'[i] = 1
             /\ b_taskResult'[i] = Placeholder(b_slides[i].title)]_vars

\* C33: a call answered 429 raises ImageError in its first attempt and is not
\* run again: it has sent one request, or two when the 429 came from the
\* v2beta endpoint tried after a 404; generate_images does not raise and
\* gives the slide a placeholder.
C33_RateLimitRaisesOnce ==
    [][\A i \in 1..Len(b_task) :
          RateLimitedAnswer(i) =>
             /\ b_task'[i] = "done"
             /\ b_call'[i] = "raised"
             /\ b_attempt'[i] = 1
             /\ b_sent'[i] = IF b_task[i] = "await_legacy" THEN 1 ELSE 2
             /\ b_sent'[i] = b_sent[i]
             /\ b_taskResult'[i] = Placeholder(b_slides[i].title)
             /\ ~b_raised']_vars

\* a returned batch in which a call raised right after its only request, as
\* a call answered 429 does, while another slide got its image
C33_Witness ==
    /\ b_pc = "done"
    /\ ~b_raised
    /\ \E i \in 1..Len(b_call) :
          /\ b_call[i] = "raised"
          /\ b_sent[i] = 1
          /\ b_results[i] = Placeholder(b_slides[i].title)
    /\ \E j \in 1..Len(b_call) : b_call[j] = "image"

(***************************************************************************)
(* llm.py: the allow-list rejection and the slides of a successful answer  *)
(***************************************************************************)

\* C34: when the requested model is not in the (non-empty) allow-list, the
\* call fails in its first attempt: the rejection is not retried and no
\* backoff wait precedes the fallback or the raise.
C34_DisallowedNotRetried ==
    (apiKey /\ allowedModels # {} /\ SelectedModel(reqModel) \notin allowedModels)
        => (o_attempt <= 1 /\ o_pc # "backoff")

\* the step in which an upstream answer carrying k slides is accepted
SuccessfulAnswer(k) ==
    \/ ChatCompletionsResponse("ok", k)
    \/ LegacyResponse("ok", k)

\* C35: on upstream success generate_outline returns exactly the slides the
\* upstream supplied, in upstream order, whatever slideCount was requested;
\* an answer without slides is a successful outline with zero slides.
C35_ReturnsUpstreamSlides ==
    [][\A k \in 0..MaxUpstreamSlides :
          SuccessfulAnswer(k) =>
             /\ o_pc' = "done"
             /\ o_outcome' = "returned"
             /\ o_raised' = NoError
             /\ o_result' = UpstreamSlides(k)]_vars

\* a call that asked for slides and returned the empty outline of a
\* successful answer
C35_Witness ==
    /\ o_pc = "done"
    /\ o_outcome = "returned"
    /\ o_caught = NoError
    /\ "ok" \in o_seen
    /\ slideCount >= 1
    /\ o_result = <<>>

(***************************************************************************)
(* socketio_app.py: connect in production                                  *)
(***************************************************************************)

C37_PlaceholdersNotCached ==
    /\ \A i \in 1..Len(a_cache) : a_cache[i].value.provider # "placeholder"
    /\ (/\ Len(a_hist) = 2
        /\ a_hist[1].title = a_hist[2].title
        /\ a_hist[1].bullets = a_hist[2].bullets
        /\ a_hist[1].style = a_hist[2].style
        /\ a_hist[1].result.provider = "placeholder")
          => (a_hist[2].sent >= 1 /\ ~a_hist[2].hit)

\* a failed call and then the same call again, within the TTL, while the
\* cache holds an image of another slide
C37_Witness ==
    /\ Len(a_hist) = 2
    /\ a_hist[1].title = a_hist[2].title
    /\ a_hist[1].bullets = a_hist[2].bullets
    /\ a_hist[1].style = a_hist[2].style
    /\ a_hist[1].result.provider = "placeholder"
    /\ a_hist[2].at - a_hist[1].at <= CacheTtl
    /\ a_hist[2].sent >= 1

\* the same for the cache of services/images.py
C37_BatchCacheHoldsImages ==
    \A i \in 1..Len(b_cache) : b_cache[i].value.provider # "placeholder"

(***************************************************************************)
(* Adapter objects and their caches                                        *)
(***************************************************************************)

\* a step that is one lookup of the registry
RegistryLookup ==
    \/ \E name \in ProviderNames \cup {"unregistered"} : GetProvider(name)
    \/ GetAvailableProviders
    \/ \E preferred \in Preferences : GetBestAvailableProvider(preferred)

\* C38: every adapter a registry lookup (get_provider,
\* get_available_providers, get_best_available_provider) returns is an object
\* constructed by that lookup, with an empty cache; what was cached through
\* an adapter of an earlier lookup is not in it.
C38_LookupsConstructAdapters ==
    [][RegistryLookup =>
          \A id \in g_last' : /\ id \notin 1..Len(g_objects)
                              /\ g_objects'[id].cache = {}]_vars

\* a lookup returned an adapter of a class of which an earlier object holds a
\* cached image
C38_Witness ==
    \E id \in g_last : \E old \in 1..Len(g_objects) :
        /\ old < id
        /\ g_objects[old].name = g_objects[id].name
        /\ g_objects[old].cache # {}
        /\ g_objects[id].cache = {}

(***************************************************************************)
(* altText of the returned ImageMeta                                       *)
(***************************************************************************)

C39_AltTextOfGenerated ==
    \A i \in 1..Len(a_hist) :
        (~a_hist[i].raised /\ ~a_hist[i].hit)
            => a_hist[i].result.altText = a_hist[i].title

(***************************************************************************)
(* Termination of generate_images                                          *)
(***************************************************************************)

\* generate_images has returned, every task is done and the semaphore has
\* all its permits back
BatchFinished ==
    /\ b_pc = "done"
    /\ stabilityKey =>
          /\ \A i \in 1..Len(b_task) : b_task[i] = "done"
          /\ InFlight = {}
          /\ b_permits = MaxConcurrency

\* C40: when every per-slide call eventually returns or raises,
\* generate_images returns: every task gets the semaphore, completes and gives
\* its permit back, also when its call raised, and no permit is held at the end.
C40_BatchTerminates == <>BatchFinished

\* a finished batch with more slides than permits in which one call raised
\* after its retries and another produced an image
C40_Witness ==
    /\ BatchFinished
    /\ stabilityKey
    /\ Len(b_slides) > MaxConcurrency
    /\ \E i \in 1..Len(b_call) : b_call[i] = "raised"
    /\ \E i \in 1..Len(b_call) : b_call[i] = "image"

====
